---- MODULE Spec2Model ----
(***************************************************************************)
(* Model of the request/response glue of rmw_gurumdds: the service-server  *)
(* availability probe, the discovery callbacks of the built-in readers,    *)
(* and the request/response correlation of clients and services.           *)
(*                                                                         *)
(* The subsystems share no state in the code, so each has its own          *)
(* specification; the variables of the other subsystems stay at their      *)
(* initial values.                                                         *)
(*   SpecAvail  rmw_service_server_is_available against a changing match   *)
(*              state                                                      *)
(*   SpecDisc   pub_on_data_available / sub_on_data_available feeding the  *)
(*              topic cache of one listener                                *)
(*   SpecGraph  a graph query on the topic cache running against the       *)
(*              discovery callback                                         *)
(*   SpecCache  runs of equal add_topic / remove_topic calls on the topic  *)
(*              cache                                                      *)
(*   SpecLife   rmw_create_client / rmw_create_service with a failure at   *)
(*              any creation step, then rmw_destroy_client /               *)
(*              rmw_destroy_service with failing native deletes            *)
(*   SpecSend   two clients calling rmw_send_request                       *)
(*   SpecTake   two clients calling rmw_take_response, with any traffic    *)
(*              on the response topic                                      *)
(*   SpecQueue  the request queue of one service: the listener and two     *)
(*              threads calling rmw_take_request, with any traffic on the  *)
(*              request topic                                              *)
(*   SpecRR     two clients and one service end to end: rmw_send_request,  *)
(*              the request queue, rmw_take_request, rmw_send_response     *)
(*              and rmw_take_response                                      *)
(*   SpecBatch  pub_on_data_available with up to MaxBatchPending samples   *)
(*              waiting in the built-in reader                             *)
(*   SpecArgs   the five request/response functions called with invalid    *)
(*              arguments, against traffic                                 *)
(*   SpecTopics successive creations and destructions on one participant   *)
(*   SpecNaming the topic names that the two creations compute             *)
(*   SpecFrame  one client, the service and the availability probe side    *)
(*              by side, for what each operation leaves alone              *)
(*   SpecInit   rmw_init_options_init / copy / fini, rmw_init,             *)
(*              rmw_shutdown and rmw_context_fini on two option objects    *)
(*   SpecRetry  SpecLife with a destroy called again after it failed       *)
(*   SpecLive   SpecQueue with threads that call rmw_take_request when the *)
(*              guard condition is set, under fair scheduling              *)
(***************************************************************************)
EXTENDS Integers, Sequences, FiniteSets, TLC

\* ------------------------------------------------------------------------
\* Return codes
\* ------------------------------------------------------------------------
RMW_RET_OK == "RMW_RET_OK"
RMW_RET_ERROR == "RMW_RET_ERROR"
RMW_RET_INVALID_ARGUMENT == "RMW_RET_INVALID_ARGUMENT"
RMW_RET_INCORRECT_RMW_IMPLEMENTATION == "RMW_RET_INCORRECT_RMW_IMPLEMENTATION"
dds_RETCODE_OK == "dds_RETCODE_OK"
dds_RETCODE_ERROR == "dds_RETCODE_ERROR"
dds_RETCODE_NO_DATA == "dds_RETCODE_NO_DATA"
NoRet == "none"

\* ------------------------------------------------------------------------
\* Bounds
\* ------------------------------------------------------------------------
\* most endpoints that can be matched with the client's writer / reader
MaxMatched == 2
\* most discovery samples that are in the built-in reader or in a callback
MaxPending == 2
\* highest value a client's sequence counter reaches (clients alone)
MaxSeq == 2
\* most samples written to the response topic (clients alone)
MaxTraffic == 3
\* most samples that reach the request reader (service alone)
MaxArrivals == 2
\* highest value a client's sequence counter reaches (clients with the service)
MaxSeqRR == 1
\* most samples of the built-in reader not yet processed (with a graph query)
MaxGraphPending == 2
\* longest run of equal calls on the topic cache that is followed
MaxRun == 3
\* most calls of rmw_take_request that find the queue empty
MaxEmptyTakes == 1
\* Samples that reach the response topic while calls with invalid arguments run.
MaxArgsTraffic == 1
\* Calls that follow the first creation or destruction for one service name.
MaxCalls == 2
\* Longest service name.
MaxNameLen == 2
\* Most repeated rmw_destroy_service calls on one handle.
MaxAgain == 1
\* Most rmw_send_request calls of the client whose state is watched.
MaxFrameSends == 1
\* Most samples waiting in the built-in reader when the batch size is looked at.
MaxBatchPending == 9

VARIABLES
    \* --- availability probe ---
    matched_subscriptions,  \* matched subscriptions of the client's request_writer
    matched_publications,   \* matched publications of the client's response_reader
    avail,                  \* the running rmw_service_server_is_available call
    availHist,              \* what the transport really held at each step of the call
    \* --- discovery listener ---
    entity_type,            \* Publisher: pub_on_data_available, Subscriber: sub_...
    builtin_reader,         \* samples of the built-in reader that were not taken yet
    listener_mutex,         \* GurumddsDataReaderListener::mutex_: its holder
    topic_cache,            \* GurumddsDataReaderListener::topic_cache
    graph_guard_condition,  \* trigger value of the node's graph guard condition
    disc,                   \* the running invocation of the discovery callback
    last_processed,         \* per guid: what its most recently processed sample said
    query,                  \* the running graph query (count_topic, fill_...)
    cache_run,              \* the current run of equal calls on the topic cache
    \* --- clients ---
    client_info,            \* GurumddsClientInfo: writer_guid, sequence_number
    send_out,               \* result of each client's last rmw_send_request
    take_out,               \* result of each client's last rmw_take_response
    response_reader,        \* samples of each client's response_reader, oldest first
    client_hist,            \* per client: ids returned, responses taken, in order
    published,              \* every sample written to the response topic, in order
    \* --- service ---
    request_reader,         \* samples of the service's request_reader, oldest first
    service_info,           \* GurumddsServiceInfo: message_queue, guard condition, mutex
    callback,               \* the listener thread that fills message_queue
    app,                    \* the application threads that call rmw_take_request
    heap,                   \* buffers of the queue entries that are allocated
    \* --- creation and destruction of a client or a service ---
    native,                 \* per native resource: how many live references exist
    life,                   \* the running rmw_create_* / rmw_destroy_* call
    naming,                 \* the topic names that a creation computes
    \* --- initialization ---
    init_options,           \* the rmw_init_options_t objects of the application
    context,                \* the rmw_context_t of the application
    init_out                \* the last call of an initialization function

availVars == <<matched_subscriptions, matched_publications, avail, availHist>>
discVars == <<entity_type, builtin_reader, listener_mutex, topic_cache,
              graph_guard_condition, disc, last_processed, query, cache_run>>
clientVars == <<client_info, send_out, take_out, response_reader, client_hist, published>>
serviceVars == <<request_reader, service_info, callback, app, heap>>
rrVars == <<clientVars, serviceVars>>
initVars == <<init_options, context, init_out>>
lifeVars == <<native, life, naming, initVars>>
vars == <<availVars, discVars, rrVars, lifeVars>>

\* ========================================================================
\* Initialization (rmw_init_options_init, rmw_init_options_copy,
\* rmw_init_options_fini, rmw_init, rmw_shutdown, rmw_context_fini)
\* ========================================================================
\* The two options objects of the application, and no object.
Options == {"a", "b"}
NULL == "NULL"

\* Allocators that RCUTILS_CHECK_ALLOCATOR accepts; the zero-initialized
\* allocator is not one.
Allocators == {"alloc1", "alloc2"}
ZeroAllocator == "zero"

gurum_gurumdds_static_identifier == "gurum_gurumdds_static_identifier"
OtherIdentifier == "other"
NullIdentifier == "nullptr"

OptionsOf(identifier, allocator) ==
    [instance_id |-> 0, implementation_identifier |-> identifier,
     allocator |-> allocator, impl |-> "nullptr"]

\* rmw_get_zero_initialized_init_options()
ZeroOptions == OptionsOf(NullIdentifier, ZeroAllocator)

\* rmw_get_zero_initialized_context()
ZeroContext ==
    [instance_id |-> 0, implementation_identifier |-> NullIdentifier, impl |-> "nullptr"]

InitIdle ==
    [op |-> "none", ret |-> NoRet, error_set |-> FALSE, target |-> NULL,
     src |-> NULL, allocator |-> ZeroAllocator, before |-> [o \in Options |-> ZeroOptions],
     finied |-> {}]

InitQuiet ==
    /\ init_options = [o \in Options |-> ZeroOptions]
    /\ context = ZeroContext
    /\ init_out = InitIdle

\* Object a is zero-initialized; object b is zero-initialized or was
\* initialized by another implementation.
InitInit ==
    /\ \E b \in {ZeroOptions, OptionsOf(OtherIdentifier, "alloc1")} :
          /\ init_options = [o \in Options |-> IF o = "a" THEN ZeroOptions ELSE b]
          /\ init_out = [InitIdle EXCEPT
                           !.before = [o \in Options |-> IF o = "a" THEN ZeroOptions ELSE b]]
    /\ context = ZeroContext

\* The record of a call: what was called with what, what it returned, whether
\* it set an error message, and the options objects before it.
Called(op, target, src, allocator, ret, error_set) ==
    [op |-> op, ret |-> ret, error_set |-> error_set, target |-> target,
     src |-> src, allocator |-> allocator, before |-> init_options,
     finied |-> init_out.finied]

\* rmw_init_options_init, lines 24-38.
rmw_init_options_init(o, allocator) ==
    /\ IF o = NULL
       THEN /\ init_out' = Called("init", o, NULL, allocator, RMW_RET_INVALID_ARGUMENT, TRUE)
            /\ UNCHANGED init_options
       ELSE IF allocator \notin Allocators
       THEN /\ init_out' = Called("init", o, NULL, allocator, RMW_RET_INVALID_ARGUMENT, FALSE)
            /\ UNCHANGED init_options
       ELSE IF init_options[o].implementation_identifier # NullIdentifier
       THEN /\ init_out' = Called("init", o, NULL, allocator, RMW_RET_INVALID_ARGUMENT, TRUE)
            /\ UNCHANGED init_options
       ELSE /\ init_options' = [init_options EXCEPT ![o] =
                 [instance_id |-> 0,
                  implementation_identifier |-> gurum_gurumdds_static_identifier,
                  allocator |-> allocator, impl |-> "nullptr"]]
            /\ init_out' = Called("init", o, NULL, allocator, RMW_RET_OK, FALSE)
    /\ UNCHANGED context

\* A copy that does not look at what dst holds.
Mut_copy_overwrites(src, dst) ==
    /\ IF src = NULL \/ dst = NULL
       THEN /\ init_out' = Called("copy", dst, src, ZeroAllocator,
                                  RMW_RET_INVALID_ARGUMENT, TRUE)
            /\ UNCHANGED init_options
       ELSE IF init_options[src].implementation_identifier # gurum_gurumdds_static_identifier
       THEN /\ init_out' = Called("copy", dst, src, ZeroAllocator,
                                  RMW_RET_INCORRECT_RMW_IMPLEMENTATION, TRUE)
            /\ UNCHANGED init_options
       ELSE /\ init_options' = [init_options EXCEPT ![dst] = init_options[src]]
            /\ init_out' = Called("copy", dst, src, ZeroAllocator, RMW_RET_OK, FALSE)
    /\ UNCHANGED context

\* rmw_init_options_copy, lines 40-56.
rmw_init_options_copy(src, dst) ==
    /\ IF src = NULL \/ dst = NULL
       THEN /\ init_out' = Called("copy", dst, src, ZeroAllocator,
                                  RMW_RET_INVALID_ARGUMENT, TRUE)
            /\ UNCHANGED init_options
       ELSE IF init_options[src].implementation_identifier # gurum_gurumdds_static_identifier
       THEN /\ init_out' = Called("copy", dst, src, ZeroAllocator,
                                  RMW_RET_INCORRECT_RMW_IMPLEMENTATION, TRUE)
            /\ UNCHANGED init_options
       ELSE IF init_options[dst].implementation_identifier # NullIdentifier
       THEN /\ init_out' = Called("copy", dst, src, ZeroAllocator,
                                  RMW_RET_INVALID_ARGUMENT, TRUE)
            /\ UNCHANGED init_options
       ELSE /\ init_options' = [init_options EXCEPT ![dst] = init_options[src]]
            /\ init_out' = Called("copy", dst, src, ZeroAllocator, RMW_RET_OK, FALSE)
    /\ UNCHANGED context

\* rmw_init_options_fini, lines 58-70.
rmw_init_options_fini(o) ==
    /\ IF o = NULL
       THEN /\ init_out' = Called("fini", o, NULL, ZeroAllocator,
                                  RMW_RET_INVALID_ARGUMENT, TRUE)
            /\ UNCHANGED init_options
       ELSE IF init_options[o].allocator \notin Allocators
       THEN /\ init_out' = Called("fini", o, NULL, ZeroAllocator,
                                  RMW_RET_INVALID_ARGUMENT, FALSE)
            /\ UNCHANGED init_options
       ELSE IF init_options[o].implementation_identifier # gurum_gurumdds_static_identifier
       THEN /\ init_out' = Called("fini", o, NULL, ZeroAllocator,
                                  RMW_RET_INCORRECT_RMW_IMPLEMENTATION, TRUE)
            /\ UNCHANGED init_options
       ELSE /\ init_options' = [init_options EXCEPT ![o] = ZeroOptions]
            /\ init_out' = [Called("fini", o, NULL, ZeroAllocator, RMW_RET_OK, FALSE)
                              EXCEPT !.finied = @ \cup {o}]
    /\ UNCHANGED context

\* rmw_init, lines 72-102.  dpf is what
\* dds_DomainParticipantFactory_get_instance returned.
rmw_init(o, ctx_null, dpf) ==
    /\ UNCHANGED init_options
    /\ IF o = NULL \/ ctx_null
       THEN /\ init_out' = Called("rmw_init", o, NULL, ZeroAllocator,
                                  RMW_RET_INVALID_ARGUMENT, TRUE)
            /\ UNCHANGED context
       ELSE IF init_options[o].implementation_identifier # gurum_gurumdds_static_identifier
       THEN /\ init_out' = Called("rmw_init", o, NULL, ZeroAllocator,
                                  RMW_RET_INCORRECT_RMW_IMPLEMENTATION, TRUE)
            /\ UNCHANGED context
       ELSE /\ context' = [instance_id |-> init_options[o].instance_id,
                           implementation_identifier |-> gurum_gurumdds_static_identifier,
                           impl |-> "nullptr"]
            /\ init_out' = Called("rmw_init", o, NULL, ZeroAllocator, RMW_RET_OK,
                                  dpf = "nullptr")

\* rmw_shutdown, lines 104-117.
rmw_shutdown(ctx_null) ==
    /\ UNCHANGED <<init_options, context>>
    /\ IF ctx_null
       THEN init_out' = Called("rmw_shutdown", NULL, NULL, ZeroAllocator,
                               RMW_RET_INVALID_ARGUMENT, TRUE)
       ELSE IF context.implementation_identifier # gurum_gurumdds_static_identifier
       THEN init_out' = Called("rmw_shutdown", NULL, NULL, ZeroAllocator,
                               RMW_RET_INCORRECT_RMW_IMPLEMENTATION, TRUE)
       ELSE init_out' = Called("rmw_shutdown", NULL, NULL, ZeroAllocator,
                               RMW_RET_OK, FALSE)

\* rmw_context_fini, lines 119-131.
rmw_context_fini(ctx_null) ==
    /\ UNCHANGED init_options
    /\ IF ctx_null
       THEN /\ init_out' = Called("rmw_context_fini", NULL, NULL, ZeroAllocator,
                                  RMW_RET_INVALID_ARGUMENT, TRUE)
            /\ UNCHANGED context
       ELSE IF context.implementation_identifier # gurum_gurumdds_static_identifier
       THEN /\ init_out' = Called("rmw_context_fini", NULL, NULL, ZeroAllocator,
                                  RMW_RET_INCORRECT_RMW_IMPLEMENTATION, TRUE)
            /\ UNCHANGED context
       ELSE /\ context' = ZeroContext
            /\ init_out' = Called("rmw_context_fini", NULL, NULL, ZeroAllocator,
                                  RMW_RET_OK, FALSE)

\* ========================================================================
\* Service availability probe (rmw_service_server_is_available)
\* ========================================================================
AvailIdle ==
    [pc |-> "idle", is_available |-> FALSE, ret |-> NoRet,
     sub_cnt |-> 0, pub_cnt |-> 0, seq |-> 0, failed |-> "none"]

AvailHistIdle ==
    [changed |-> FALSE, q1_subs |-> 0, q2_pubs |-> 0, ret_subs |-> 0, ret_pubs |-> 0]

InitAvail ==
    /\ matched_subscriptions \in 0..MaxMatched
    /\ matched_publications \in 0..MaxMatched
    /\ avail = AvailIdle
    /\ availHist = AvailHistIdle

\* Lines 537-543: *is_available = false; the first instance handle sequence.
is_available_begin ==
    /\ avail.pc = "idle"
    /\ \E created \in BOOLEAN :
        IF created
        THEN /\ avail' = [avail EXCEPT !.pc = "q1", !.is_available = FALSE, !.seq = 1]
             /\ availHist' = AvailHistIdle
        ELSE /\ avail' = [avail EXCEPT !.pc = "done", !.is_available = FALSE,
                                       !.ret = RMW_RET_ERROR,
                                       !.failed = "sequence"]
             /\ availHist' = [AvailHistIdle EXCEPT !.ret_subs = matched_subscriptions,
                                                   !.ret_pubs = matched_publications]
    /\ UNCHANGED <<matched_subscriptions, matched_publications>>

\* A probe that forgets the early return on "no matched subscription".
Mut_query_subscriptions_no_early_return ==
    /\ avail.pc = "q1"
    /\ avail' = [avail EXCEPT !.pc = "q2", !.sub_cnt = matched_subscriptions]
    /\ availHist' = [availHist EXCEPT !.q1_subs = matched_subscriptions]
    /\ UNCHANGED <<matched_subscriptions, matched_publications>>

\* Lines 545-564: dds_DataWriter_get_matched_subscriptions, the length of the
\* sequence, its deletion, the early return and the second sequence.
is_available_query_subscriptions ==
    /\ avail.pc = "q1"
    /\ \E ret \in {dds_RETCODE_OK, dds_RETCODE_ERROR}, created \in BOOLEAN :
        LET h == [availHist EXCEPT !.q1_subs = matched_subscriptions,
                                   !.ret_subs = matched_subscriptions,
                                   !.ret_pubs = matched_publications]
            a == [avail EXCEPT !.seq = @ - 1]
        IN  IF ret # dds_RETCODE_OK
            THEN /\ avail' = [a EXCEPT !.pc = "done", !.ret = RMW_RET_ERROR,
                                       !.failed = "subscriptions"]
                 /\ availHist' = h
            ELSE LET sub_cnt == matched_subscriptions
                 IN  IF sub_cnt = 0
                     THEN /\ avail' = [a EXCEPT !.pc = "done", !.ret = RMW_RET_OK,
                                                !.sub_cnt = sub_cnt]
                          /\ availHist' = h
                     ELSE IF ~created
                     THEN /\ avail' = [a EXCEPT !.pc = "done", !.ret = RMW_RET_ERROR,
                                                !.sub_cnt = sub_cnt,
                                                !.failed = "sequence"]
                          /\ availHist' = h
                     ELSE /\ avail' = [a EXCEPT !.pc = "q2", !.sub_cnt = sub_cnt,
                                                !.seq = @ + 1]
                          /\ availHist' = [availHist EXCEPT
                                             !.q1_subs = matched_subscriptions]
    /\ UNCHANGED <<matched_subscriptions, matched_publications>>

\* A probe that returns from a failed second query with its sequence alive.
Mut_query_publications_error_leaks ==
    /\ avail.pc = "q2"
    /\ \E ret \in {dds_RETCODE_OK, dds_RETCODE_ERROR} :
        LET h == [availHist EXCEPT !.q2_pubs = matched_publications,
                                   !.ret_subs = matched_subscriptions,
                                   !.ret_pubs = matched_publications]
            a == [avail EXCEPT !.seq = @ - 1]
        IN  /\ availHist' = h
            /\ IF ret # dds_RETCODE_OK
               THEN avail' = [avail EXCEPT !.pc = "done", !.ret = RMW_RET_ERROR,
                                       !.failed = "publications"]
               ELSE LET pub_cnt == matched_publications
                    IN  IF pub_cnt = 0
                        THEN avail' = [a EXCEPT !.pc = "done", !.ret = RMW_RET_OK,
                                                !.pub_cnt = pub_cnt]
                        ELSE avail' = [a EXCEPT !.pc = "done", !.ret = RMW_RET_OK,
                                                !.pub_cnt = pub_cnt,
                                                !.is_available = TRUE]
    /\ UNCHANGED <<matched_subscriptions, matched_publications>>

\* A probe that reports a server as soon as the request writer is matched.
Mut_query_publications_ignored ==
    /\ avail.pc = "q2"
    /\ avail' = [avail EXCEPT !.pc = "done", !.ret = RMW_RET_OK, !.seq = 0,
                              !.pub_cnt = matched_publications,
                              !.is_available = TRUE]
    /\ availHist' = [availHist EXCEPT !.q2_pubs = matched_publications,
                                      !.ret_subs = matched_subscriptions,
                                      !.ret_pubs = matched_publications]
    /\ UNCHANGED <<matched_subscriptions, matched_publications>>

\* Lines 566-583: dds_DataReader_get_matched_publications, the length of the
\* sequence, its deletion and the result.
is_available_query_publications ==
    /\ avail.pc = "q2"
    /\ \E ret \in {dds_RETCODE_OK, dds_RETCODE_ERROR} :
        LET h == [availHist EXCEPT !.q2_pubs = matched_publications,
                                   !.ret_subs = matched_subscriptions,
                                   !.ret_pubs = matched_publications]
            a == [avail EXCEPT !.seq = @ - 1]
        IN  /\ availHist' = h
            /\ IF ret # dds_RETCODE_OK
               THEN avail' = [a EXCEPT !.pc = "done", !.ret = RMW_RET_ERROR,
                                       !.failed = "publications"]
               ELSE LET pub_cnt == matched_publications
                    IN  IF pub_cnt = 0
                        THEN avail' = [a EXCEPT !.pc = "done", !.ret = RMW_RET_OK,
                                                !.pub_cnt = pub_cnt]
                        ELSE avail' = [a EXCEPT !.pc = "done", !.ret = RMW_RET_OK,
                                                !.pub_cnt = pub_cnt,
                                                !.is_available = TRUE]
    /\ UNCHANGED <<matched_subscriptions, matched_publications>>

\* The caller has read the result; the client may probe again.
is_available_done ==
    /\ avail.pc = "done"
    /\ avail' = AvailIdle
    /\ availHist' = AvailHistIdle
    /\ UNCHANGED <<matched_subscriptions, matched_publications>>

\* The transport matches or unmatches a server's request reader with the
\* client's request writer, at any moment.
MatchChanged ==
    availHist' = [availHist EXCEPT !.changed = @ \/ avail.pc \in {"q1", "q2"}]

subscription_matched ==
    /\ \E n \in 0..MaxMatched :
        /\ n # matched_subscriptions
        /\ n - matched_subscriptions \in {-1, 1}
        /\ matched_subscriptions' = n
    /\ MatchChanged
    /\ UNCHANGED <<matched_publications, avail>>

\* ... or a server's response writer with the client's response reader.
publication_matched ==
    /\ \E n \in 0..MaxMatched :
        /\ n # matched_publications
        /\ n - matched_publications \in {-1, 1}
        /\ matched_publications' = n
    /\ MatchChanged
    /\ UNCHANGED <<matched_subscriptions, avail>>


\* ========================================================================
\* Discovery listener (pub_on_data_available, sub_on_data_available)
\* ========================================================================
Guids == {"g1", "g2"}
HANDLE_NIL == "nil"
Participants == {"p1", "p2"}
TopicNames == {"ta", "tb"}
NoEntry == [absent |-> TRUE]

\* What the callback reads of a dds_PublicationBuiltinTopicData /
\* dds_SubscriptionBuiltinTopicData and of its dds_SampleInfo.
NoData == [participant_key |-> "p1", topic_name |-> "ta"]
TopicData == {[participant_key |-> "p1", topic_name |-> "ta"],
              [participant_key |-> "p2", topic_name |-> "tb"]}
DiscSample(h, v, a, d) ==
    [instance_handle |-> h, valid_data |-> v, alive |-> a, data |-> d]
DiscSamples ==
    {DiscSample(h, TRUE, TRUE, d) : h \in Guids, d \in TopicData}
    \cup {DiscSample(h, v, FALSE, NoData) : h \in Guids, v \in BOOLEAN}
    \cup {DiscSample(h, FALSE, TRUE, NoData) : h \in Guids}
    \cup {DiscSample(HANDLE_NIL, TRUE, TRUE, NoData)}

\* The rmw_qos_profile_t the callback builds (lines 104-114, 190-200): the
\* history and depth are constants, the lifespan is converted for a publication
\* and is the default for a subscription.
DiscoveredQos(kind) ==
    [history |-> "RMW_QOS_POLICY_HISTORY_UNKNOWN",
     depth |-> "RMW_QOS_POLICY_DEPTH_SYSTEM_DEFAULT",
     lifespan |-> IF kind = "Publisher" THEN "converted" ELSE "RMW_QOS_LIFESPAN_DEFAULT",
     avoid_ros_namespace_conventions |-> FALSE]

\* TopicCache: the entry of every entity guid and the guids of every participant.
EmptyCache ==
    [info |-> [g \in Guids |-> NoEntry], by_participant |-> [p \in Participants |-> {}]]

\* An add_topic that leaves the guid in the index of its former participant.
Mut_add_topic_keeps_old_index(cache, participant_guid, guid, topic_name, type_name, qos) ==
    [info |-> [cache.info EXCEPT ![guid] =
                  [participant |-> participant_guid, topic_name |-> topic_name,
                   type_name |-> type_name, qos |-> qos]],
     by_participant |-> [cache.by_participant EXCEPT ![participant_guid] = @ \cup {guid}]]

\* TopicCache::add_topic: insert or replace the entry of `guid`.
add_topic(cache, participant_guid, guid, topic_name, type_name, qos) ==
    [info |-> [cache.info EXCEPT ![guid] =
                  [participant |-> participant_guid, topic_name |-> topic_name,
                   type_name |-> type_name, qos |-> qos]],
     by_participant |-> [p \in Participants |->
                  IF p = participant_guid
                  THEN cache.by_participant[p] \cup {guid}
                  ELSE cache.by_participant[p] \ {guid}]]

\* A remove_topic that looks the guid up with operator[] and so leaves a
\* default-constructed entry behind when there was none.
Mut_remove_topic_default_entry(cache, guid) ==
    IF cache.info[guid] = NoEntry
    THEN [cache EXCEPT !.info[guid] =
             [participant |-> "", topic_name |-> "", type_name |-> "",
              qos |-> DiscoveredQos("Subscriber")]]
    ELSE [info |-> [cache.info EXCEPT ![guid] = NoEntry],
          by_participant |-> [p \in Participants |-> cache.by_participant[p] \ {guid}]]

\* TopicCache::remove_topic: delete the entry of `guid` if there is one.
remove_topic(cache, guid) ==
    [info |-> [cache.info EXCEPT ![guid] = NoEntry],
     by_participant |-> [p \in Participants |-> cache.by_participant[p] \ {guid}]]

\* Before any sample of a guid was processed there is nothing alive to report.
NeverProcessed == [g \in Guids |-> [alive |-> FALSE, data |-> NoData]]

\* What the samples of `batch`, taken one after the other from the first, leave
\* as the most recent word on every guid.
RECURSIVE InSequenceOrder(_, _)
InSequenceOrder(processed, batch) ==
    IF batch = <<>>
    THEN processed
    ELSE LET info == Head(batch)
         IN  InSequenceOrder(
                 IF info.instance_handle = HANDLE_NIL
                 THEN processed
                 ELSE [processed EXCEPT ![info.instance_handle] =
                          [alive |-> info.valid_data /\ info.alive, data |-> info.data]],
                 Tail(batch))

\* A graph query that is not running.
QueryIdle == [pc |-> "idle", todo |-> {}, seen |-> [g \in Guids |-> NoEntry],
              at_lock |-> [g \in Guids |-> NoEntry], mid_batch |-> FALSE]

\* No call on the topic cache yet.
NoRun == [op |-> "none", guid |-> "g1", len |-> 0, data |-> NoData,
          base |-> EmptyCache, before |-> EmptyCache]

DiscIdle ==
    [pc |-> "idle", batch |-> <<>>, length |-> 0, skipped |-> 0, triggers |-> 0,
     ret |-> NoRet, seqs |-> 0, loan |-> FALSE, final |-> NeverProcessed]

InitDisc ==
    /\ entity_type \in {"Publisher", "Subscriber"}
    /\ builtin_reader = <<>>
    /\ listener_mutex = "free"
    /\ topic_cache = EmptyCache
    /\ graph_guard_condition = FALSE
    /\ disc = DiscIdle
    /\ last_processed = NeverProcessed
    /\ query = QueryIdle
    /\ cache_run = NoRun

\* A callback that does not take the listener's mutex.
Mut_begin_without_lock ==
    /\ disc.pc = "idle"
    /\ \E samples \in BOOLEAN, infos \in BOOLEAN :
        IF samples /\ infos
        THEN disc' = [DiscIdle EXCEPT !.pc = "take", !.seqs = 2]
        ELSE disc' = [DiscIdle EXCEPT !.pc = "done", !.ret = "no sequence"]
    /\ UNCHANGED <<last_processed, query, cache_run, entity_type, builtin_reader,
                   listener_mutex, topic_cache, graph_guard_condition>>

\* dds_DataSeq_create(8), dds_SampleInfoSeq_create(8): the length the two
\* sequences are created with.
SequenceCapacity == 8

\* Lines 60-71: the lock_guard and the two sequences.  A sequence that cannot
\* be created ends the callback (the lock_guard releases the mutex).
on_data_available_begin ==
    /\ disc.pc = "idle"
    /\ listener_mutex = "free"
    /\ \E samples \in BOOLEAN, infos \in BOOLEAN :
        IF samples /\ infos
        THEN /\ disc' = [DiscIdle EXCEPT !.pc = "take", !.seqs = 2]
             /\ listener_mutex' = "callback"
        ELSE /\ disc' = [DiscIdle EXCEPT !.pc = "done", !.ret = "no sequence"]
             /\ listener_mutex' = "free"
    /\ UNCHANGED <<last_processed, query, cache_run, entity_type, builtin_reader,
                   topic_cache, graph_guard_condition>>

\* A take whose error path returns with the loan and the mutex still held.
Mut_take_error_no_cleanup ==
    /\ disc.pc = "take"
    /\ \E ret \in {dds_RETCODE_OK, dds_RETCODE_NO_DATA, dds_RETCODE_ERROR} :
        /\ ret = dds_RETCODE_NO_DATA => builtin_reader = <<>>
        /\ IF ret = dds_RETCODE_OK
           THEN /\ disc' = [disc EXCEPT !.pc = "loop", !.ret = ret, !.loan = TRUE,
                                        !.batch = builtin_reader,
                                        !.length = Len(builtin_reader),
                                        !.final = InSequenceOrder(last_processed,
                                                                  builtin_reader)]
                /\ builtin_reader' = <<>>
                /\ UNCHANGED listener_mutex
           ELSE /\ disc' = [disc EXCEPT !.pc = "done", !.ret = ret,
                                        !.loan = (ret = dds_RETCODE_ERROR)]
                /\ listener_mutex' = IF ret = dds_RETCODE_ERROR
                                     THEN listener_mutex ELSE "free"
                /\ UNCHANGED builtin_reader
    /\ UNCHANGED <<last_processed, query, cache_run, entity_type, topic_cache, graph_guard_condition>>

\* Lines 73-88: dds_DataReader_take with dds_LENGTH_UNLIMITED takes every
\* sample of the reader.  With no data, or on an error, the loan is returned,
\* the sequences are deleted and the callback ends.
on_data_available_take ==
    /\ disc.pc = "take"
    /\ \E ret \in {dds_RETCODE_OK, dds_RETCODE_NO_DATA, dds_RETCODE_ERROR} :
        /\ ret = dds_RETCODE_NO_DATA => builtin_reader = <<>>
        /\ IF ret = dds_RETCODE_OK
           THEN /\ disc' = [disc EXCEPT !.pc = "loop", !.ret = ret, !.loan = TRUE,
                                        !.batch = builtin_reader,
                                        !.length = Len(builtin_reader),
                                        !.final = InSequenceOrder(last_processed,
                                                                  builtin_reader)]
                /\ builtin_reader' = <<>>
                /\ UNCHANGED listener_mutex
           ELSE /\ disc' = [disc EXCEPT !.pc = "done", !.ret = ret, !.seqs = 0]
                /\ listener_mutex' = "free"
                /\ UNCHANGED builtin_reader
    /\ UNCHANGED <<last_processed, query, cache_run, entity_type, topic_cache, graph_guard_condition>>

\* A loop that a null instance handle ends (break for continue).
Mut_sample_null_ends_batch ==
    /\ disc.pc = "loop"
    /\ disc.batch # <<>>
    /\ LET info == Head(disc.batch)
           guid == info.instance_handle
       IN  IF guid = HANDLE_NIL
           THEN /\ disc' = [disc EXCEPT !.batch = <<>>, !.skipped = @ + 1]
                /\ UNCHANGED <<topic_cache, last_processed>>
           ELSE /\ disc' = [disc EXCEPT !.batch = Tail(@)]
                /\ last_processed' = [last_processed EXCEPT ![guid] =
                       [alive |-> info.valid_data /\ info.alive, data |-> info.data]]
                /\ IF info.valid_data /\ info.alive
                   THEN topic_cache' =
                          add_topic(topic_cache, info.data.participant_key, guid,
                                    info.data.topic_name, "type",
                                    DiscoveredQos(entity_type))
                   ELSE topic_cache' = remove_topic(topic_cache, guid)
    /\ UNCHANGED <<query, cache_run, entity_type, builtin_reader, listener_mutex,
                   graph_guard_condition>>

\* A loop that looks at valid_data only, not at the instance state.
Mut_sample_ignores_instance_state ==
    /\ disc.pc = "loop"
    /\ disc.batch # <<>>
    /\ LET info == Head(disc.batch)
           guid == info.instance_handle
       IN  IF guid = HANDLE_NIL
           THEN /\ disc' = [disc EXCEPT !.batch = Tail(@), !.skipped = @ + 1]
                /\ UNCHANGED <<topic_cache, last_processed>>
           ELSE /\ disc' = [disc EXCEPT !.batch = Tail(@)]
                /\ last_processed' = [last_processed EXCEPT ![guid] =
                       [alive |-> info.valid_data /\ info.alive, data |-> info.data]]
                /\ IF info.valid_data
                   THEN topic_cache' =
                          add_topic(topic_cache, info.data.participant_key, guid,
                                    info.data.topic_name, "type",
                                    DiscoveredQos(entity_type))
                   ELSE topic_cache' = remove_topic(topic_cache, guid)
    /\ UNCHANGED <<query, cache_run, entity_type, builtin_reader, listener_mutex,
                   graph_guard_condition>>

\* Lines 90-119: one iteration of the loop over the samples.
on_data_available_sample ==
    /\ disc.pc = "loop"
    /\ disc.batch # <<>>
    /\ LET info == Head(disc.batch)
           guid == info.instance_handle
       IN  IF guid = HANDLE_NIL
           THEN /\ disc' = [disc EXCEPT !.batch = Tail(@), !.skipped = @ + 1]
                /\ UNCHANGED <<topic_cache, last_processed>>
           ELSE /\ disc' = [disc EXCEPT !.batch = Tail(@)]
                /\ last_processed' = [last_processed EXCEPT ![guid] =
                       [alive |-> info.valid_data /\ info.alive, data |-> info.data]]
                /\ IF info.valid_data /\ info.alive
                   THEN topic_cache' =
                          add_topic(topic_cache, info.data.participant_key, guid,
                                    info.data.topic_name, "type",
                                    DiscoveredQos(entity_type))
                   ELSE topic_cache' = remove_topic(topic_cache, guid)
    /\ UNCHANGED <<query, cache_run, entity_type, builtin_reader, listener_mutex,
                   graph_guard_condition>>

\* A callback that triggers the graph guard condition once per sample.
Mut_finish_triggers_per_sample ==
    /\ disc.pc = "loop"
    /\ disc.batch = <<>>
    /\ disc' = [disc EXCEPT !.pc = "done", !.triggers = @ + disc.length,
                            !.loan = FALSE, !.seqs = 0]
    /\ graph_guard_condition' = (graph_guard_condition \/ disc.length > 0)
    /\ listener_mutex' = "free"
    /\ UNCHANGED <<last_processed, query, cache_run, entity_type, builtin_reader, topic_cache>>

\* Lines 121-135: after the loop, the trigger of the graph guard condition
\* (which may fail and is then only logged), the return of the loan, the
\* deletion of the sequences; the lock_guard releases the mutex.
on_data_available_finish ==
    /\ disc.pc = "loop"
    /\ disc.batch = <<>>
    /\ \E triggered \in BOOLEAN :
        IF disc.length > 0
        THEN /\ disc' = [disc EXCEPT !.pc = "done", !.triggers = @ + 1,
                                     !.loan = FALSE, !.seqs = 0]
             /\ graph_guard_condition' = (graph_guard_condition \/ triggered)
        ELSE /\ disc' = [disc EXCEPT !.pc = "done", !.loan = FALSE, !.seqs = 0]
             /\ UNCHANGED graph_guard_condition
    /\ listener_mutex' = "free"
    /\ UNCHANGED <<last_processed, query, cache_run, entity_type, builtin_reader, topic_cache>>

\* The callback has returned; the vendor may call it again.
on_data_available_return ==
    /\ disc.pc = "done"
    /\ disc' = DiscIdle
    /\ UNCHANGED <<last_processed, query, cache_run, entity_type, builtin_reader,
                   listener_mutex, topic_cache, graph_guard_condition>>

\* The discovery protocol delivers a sample of `samples` to the built-in
\* reader, which holds at most `pending` samples that were not processed.
discovery_arrives(samples, pending) ==
    /\ Len(builtin_reader) + Len(disc.batch) < pending
    /\ \E s \in samples : builtin_reader' = Append(builtin_reader, s)
    /\ UNCHANGED <<last_processed, query, cache_run, entity_type, listener_mutex,
                   topic_cache, graph_guard_condition, disc>>

\* The discovery protocol delivers a sample to the built-in reader.
discovery_sample_arrives == discovery_arrives(DiscSamples, MaxPending)

\* A thread that waited for a graph change takes the trigger.
graph_guard_condition_taken ==
    /\ graph_guard_condition
    /\ graph_guard_condition' = FALSE
    /\ UNCHANGED <<last_processed, query, cache_run, entity_type, builtin_reader,
                   listener_mutex, topic_cache, disc>>


\* ---- a graph query (count_topic, fill_topic_names_and_types, ...) ----
\* The query takes the listener's mutex for the whole traversal.
query_lock ==
    /\ query.pc = "idle"
    /\ listener_mutex = "free"
    /\ listener_mutex' = "query"
    /\ query' = [pc |-> "read", todo |-> Guids, seen |-> [g \in Guids |-> NoEntry],
                 at_lock |-> topic_cache.info,
                 mid_batch |-> disc.pc \in {"take", "loop"}]
    /\ UNCHANGED <<entity_type, builtin_reader, topic_cache, graph_guard_condition,
                   disc, last_processed, cache_run>>

\* It visits the entries of the cache one after the other.
query_visit ==
    /\ query.pc = "read"
    /\ query.todo # {}
    /\ LET g == CHOOSE h \in query.todo : TRUE
       IN  query' = [query EXCEPT !.todo = @ \ {g}, !.seen[g] = topic_cache.info[g]]
    /\ UNCHANGED <<entity_type, builtin_reader, listener_mutex, topic_cache,
                   graph_guard_condition, disc, last_processed, cache_run>>

\* After the last entry it releases the mutex.
query_unlock ==
    /\ query.pc = "read"
    /\ query.todo = {}
    /\ listener_mutex' = "free"
    /\ query' = [query EXCEPT !.pc = "done"]
    /\ UNCHANGED <<entity_type, builtin_reader, topic_cache, graph_guard_condition,
                   disc, last_processed, cache_run>>

\* The caller has the answer; another query may start.
query_return ==
    /\ query.pc = "done"
    /\ query' = QueryIdle
    /\ UNCHANGED <<entity_type, builtin_reader, listener_mutex, topic_cache,
                   graph_guard_condition, disc, last_processed, cache_run>>

\* ---- the calls on the topic cache, one at a time ----
\* Lines 100-115: the callback calls add_topic for a guid with the payload of
\* an alive sample.  cache_run follows the calls that repeat the operation and
\* the guid of the call before: the cache before the first of them, the cache
\* before the last of them, and the payload of the last.
cache_add_topic ==
    /\ \E g \in Guids, d \in TopicData :
        LET continued == cache_run.op = "add" /\ cache_run.guid = g
        IN  /\ continued => cache_run.len < MaxRun
            /\ topic_cache' = add_topic(topic_cache, d.participant_key, g, d.topic_name,
                                        "type", DiscoveredQos(entity_type))
            /\ cache_run' = [op |-> "add", guid |-> g,
                             len |-> IF continued THEN cache_run.len + 1 ELSE 1,
                             data |-> d,
                             base |-> IF continued THEN cache_run.base ELSE topic_cache,
                             before |-> topic_cache]
    /\ UNCHANGED <<entity_type, builtin_reader, listener_mutex, graph_guard_condition,
                   disc, last_processed, query>>

\* Lines 116-118: the callback calls remove_topic for the guid of a sample that
\* is not a valid-data alive sample.
cache_remove_topic ==
    /\ \E g \in Guids :
        LET continued == cache_run.op = "remove" /\ cache_run.guid = g
        IN  /\ continued => cache_run.len < MaxRun
            /\ topic_cache' = remove_topic(topic_cache, g)
            /\ cache_run' = [op |-> "remove", guid |-> g,
                             len |-> IF continued THEN cache_run.len + 1 ELSE 1,
                             data |-> NoData,
                             base |-> IF continued THEN cache_run.base ELSE topic_cache,
                             before |-> topic_cache]
    /\ UNCHANGED <<entity_type, builtin_reader, listener_mutex, graph_guard_condition,
                   disc, last_processed, query>>


\* ========================================================================
\* Clients (rmw_send_request, rmw_take_response)
\* ========================================================================
Clients == {"A", "B"}

\* A writer identity is two random 64-bit halves (writer_guid_0, writer_guid_1),
\* 16 bytes in all.  The two clients drew distinct identities that share the
\* first half.
ZeroGuid == <<0, 0>>
WriterGuid == [c \in Clients |-> IF c = "A" THEN <<1, 1>> ELSE <<1, 2>>]
WriterGuids == {WriterGuid[c] : c \in Clients}

\* memcmp(a, b, 16) == 0
SameGuid(a, b) == a[1] = b[1] /\ a[2] = b[2]

\* A sample of a topic.  `null` says that there is no sample buffer,
\* `wellformed` that the deserialize step of the type support accepts it; the
\* correlation fields are what serialize_request / serialize_response embedded.
Sample(valid, null, wellformed, guid, seq) ==
    [valid_data |-> valid, null |-> null, wellformed |-> wellformed,
     writer_guid |-> guid, sequence_number |-> seq]

\* serialize_request(..., sequence_number, writer_guid) and serialize_response:
\* the payload carries the pair it was given.
Serialized(guid, seq) == Sample(TRUE, FALSE, TRUE, guid, seq)

\* Samples that did not come from a serialize step: a notification without
\* data (with or without a buffer), data without a buffer, malformed data.
ForeignSamples ==
    {Sample(FALSE, TRUE, FALSE, ZeroGuid, 0),
     Sample(FALSE, FALSE, FALSE, ZeroGuid, 0),
     Sample(TRUE, TRUE, FALSE, ZeroGuid, 0),
     Sample(TRUE, FALSE, FALSE, ZeroGuid, 0)}

NoSample == [valid_data |-> FALSE, null |-> TRUE, wellformed |-> FALSE,
             writer_guid |-> ZeroGuid, sequence_number |-> 0, pub |-> 0]

NoHeader == [writer_guid |-> ZeroGuid, sequence_number |-> 0]

SendIdle == [ret |-> NoRet, sequence_id |-> 0, fail |-> "none"]
\* The temporaries of rmw_take_response: the sequences that exist, whether a
\* loan of the reader is held, and whether a sequence was deleted that did
\* not exist.
NoTemporaries == [live |-> {}, loan |-> FALSE, bad |-> FALSE]

TakeIdle == [ret |-> NoRet, taken |-> FALSE, request_header |-> NoHeader,
             ros_response |-> NoHeader, consumed |-> NoSample, no_data |-> FALSE,
             temporaries |-> NoTemporaries]

InitClients ==
    /\ client_info = [c \in Clients |->
                        [writer_guid |-> WriterGuid[c], sequence_number |-> 0]]
    /\ send_out = [c \in Clients |-> SendIdle]
    /\ take_out = [c \in Clients |-> TakeIdle]
    /\ response_reader = [c \in Clients |-> <<>>]
    /\ client_hist = [c \in Clients |-> [returned |-> <<>>, taken |-> <<>>]]
    /\ published = <<>>

\* A counter that counts down.
Mut_PreIncrement_decrements(n) == n - 1

\* rmw_send_request, line 89: ++client_info->sequence_number.
PreIncrement(n) == n + 1

\* rmw_send_request, lines 69-108.  allocate_request may fail before the
\* counter is touched; serialize_request is called with
\* ++client_info->sequence_number, so the counter is incremented before a
\* failure of serialize_request or of dds_DataWriter_raw_write is known.
rmw_send_request(c) ==
    /\ \E fail \in {"none", "allocate", "serialize", "write"} :
        LET info == client_info[c]
            next == PreIncrement(info.sequence_number)
        IN  IF fail = "allocate"
            THEN /\ send_out' = [send_out EXCEPT ![c].ret = RMW_RET_ERROR,
                                                 ![c].fail = fail]
                 /\ UNCHANGED <<client_info, request_reader, client_hist>>
            ELSE /\ client_info' = [client_info EXCEPT ![c].sequence_number = next]
                 /\ IF fail = "none"
                    THEN /\ request_reader' =
                              Append(request_reader, Serialized(info.writer_guid, next))
                         /\ send_out' = [send_out EXCEPT ![c] =
                              [ret |-> RMW_RET_OK, sequence_id |-> next, fail |-> fail]]
                         /\ client_hist' = [client_hist EXCEPT
                              ![c].returned = Append(@, next)]
                    ELSE /\ send_out' = [send_out EXCEPT ![c].ret = RMW_RET_ERROR,
                                                         ![c].fail = fail]
                         /\ UNCHANGED <<request_reader, client_hist>>
    /\ UNCHANGED <<take_out, response_reader, published, service_info, callback,
                   app, heap>>

\* A filter that compares the first half of the identity only.
Mut_SameGuidFirstHalf(a, b) == a[1] = b[1]

\* rmw_take_response, line 144: does the response carry this client's identity?
ResponseIsMine(own, embedded) == SameGuid(own, embedded)

\* A take that hands the caller the newest sample of the reader.
Mut_ReaderNewest(reader) == reader[Len(reader)]

\* dds_DataReader_raw_take with max_samples 1: the oldest sample of the reader.
ReaderOldest(reader) == Head(reader)

\* A take that leaves the sample it read in the reader.
Mut_ReaderRest_keeps(reader) == reader

\* What dds_DataReader_raw_take leaves in the reader.
ReaderRest(reader) == Tail(reader)

\* rmw_take_response, lines 106-159: what every return after the take does
\* before it returns.
ReleaseTemporaries ==
    <<"return_loan", "delete data_values", "delete sample_infos",
      "delete sample_sizes">>

\* A deserialization failure that returns at once.
Mut_TakeOps_deserialize_leaks(path) ==
    LET create == <<"create data_values", "create sample_infos", "create sample_sizes">>
    IN  CASE path = "data_values" -> <<>>
          [] path = "sample_infos" -> <<"create data_values", "delete data_values">>
          [] path = "sample_sizes" ->
               <<"create data_values", "create sample_infos",
                 "delete data_values", "delete sample_infos">>
          [] path \in {"no_data", "take"} -> create \o <<"take nothing">> \o ReleaseTemporaries
          [] path = "deserialize" -> create \o <<"take sample">>
          [] OTHER -> create \o <<"take sample">> \o ReleaseTemporaries

\* rmw_take_response, lines 77-162: the calls that create, take, return and
\* delete on each return path.  The paths: one of the three sequences cannot
\* be created; no data; the take fails; the sample has no valid data;
\* deserialize_response fails; the identity is another client's; success.
TakeOps(path) ==
    LET create == <<"create data_values", "create sample_infos", "create sample_sizes">>
    IN  CASE path = "data_values" -> <<>>
          [] path = "sample_infos" -> <<"create data_values", "delete data_values">>
          [] path = "sample_sizes" ->
               <<"create data_values", "create sample_infos",
                 "delete data_values", "delete sample_infos">>
          [] path \in {"no_data", "take"} -> create \o <<"take nothing">> \o ReleaseTemporaries
          [] OTHER -> create \o <<"take sample">> \o ReleaseTemporaries

\* The temporaries after one call of the native interface.
ApplyOp(t, op) ==
    CASE op = "create data_values" -> [t EXCEPT !.live = @ \cup {"data_values"}]
      [] op = "create sample_infos" -> [t EXCEPT !.live = @ \cup {"sample_infos"}]
      [] op = "create sample_sizes" -> [t EXCEPT !.live = @ \cup {"sample_sizes"}]
      [] op = "take sample" -> [t EXCEPT !.loan = TRUE]
      [] op = "take nothing" -> t
      [] op = "return_loan" -> [t EXCEPT !.loan = FALSE]
      [] op = "delete data_values" ->
           [t EXCEPT !.live = @ \ {"data_values"},
                     !.bad = @ \/ "data_values" \notin t.live]
      [] op = "delete sample_infos" ->
           [t EXCEPT !.live = @ \ {"sample_infos"},
                     !.bad = @ \/ "sample_infos" \notin t.live]
      [] op = "delete sample_sizes" ->
           [t EXCEPT !.live = @ \ {"sample_sizes"},
                     !.bad = @ \/ "sample_sizes" \notin t.live]

RECURSIVE RunOps(_, _)
RunOps(t, ops) == IF ops = <<>> THEN t ELSE RunOps(ApplyOp(t, Head(ops)), Tail(ops))

\* The result of a call that returned by `path`, with the temporaries it leaves.
Returned(c, out, path) ==
    [out EXCEPT !.temporaries = RunOps(take_out[c].temporaries, TakeOps(path))]

\* rmw_take_response, lines 77-162.  The three sequences, the take of at most
\* one sample, the deserialization and the comparison of the embedded identity
\* with the client's own.
rmw_take_response(c) ==
    /\ \E fail \in {"none", "data_values", "sample_infos", "sample_sizes", "take"} :
        LET out == [TakeIdle EXCEPT !.request_header = take_out[c].request_header,
                                    !.ros_response = take_out[c].ros_response]
            reader == response_reader[c]
        IN  IF fail # "none"
            THEN \* lines 77-96, 110-117: nothing was taken
                 /\ take_out' = [take_out EXCEPT ![c] =
                      Returned(c, [out EXCEPT !.ret = RMW_RET_ERROR], fail)]
                 /\ UNCHANGED <<response_reader, client_hist>>
            ELSE IF reader = <<>>
            THEN \* lines 102-108: dds_RETCODE_NO_DATA
                 /\ take_out' = [take_out EXCEPT ![c] =
                      Returned(c, [out EXCEPT !.ret = RMW_RET_OK, !.no_data = TRUE],
                               "no_data")]
                 /\ UNCHANGED <<response_reader, client_hist>>
            ELSE LET sample == ReaderOldest(reader)
                     got == [out EXCEPT !.consumed = sample]
                     body == [writer_guid |-> sample.writer_guid,
                              sequence_number |-> sample.sequence_number]
                 IN  /\ response_reader' = [response_reader EXCEPT ![c] = ReaderRest(reader)]
                     /\ IF ~sample.valid_data
                        THEN /\ take_out' = [take_out EXCEPT ![c] =
                                  Returned(c, [got EXCEPT !.ret = RMW_RET_OK], "invalid")]
                             /\ UNCHANGED client_hist
                        ELSE IF ~sample.wellformed
                        THEN \* lines 135-142: deserialize_response failed
                             /\ take_out' = [take_out EXCEPT ![c] =
                                  Returned(c, [got EXCEPT !.ret = RMW_RET_ERROR],
                                           "deserialize")]
                             /\ UNCHANGED client_hist
                        ELSE IF ResponseIsMine(client_info[c].writer_guid, sample.writer_guid)
                        THEN /\ take_out' = [take_out EXCEPT ![c] =
                                  Returned(c, [got EXCEPT !.ret = RMW_RET_OK,
                                                          !.taken = TRUE,
                                                          !.ros_response = body,
                                                          !.request_header = body],
                                           "success")]
                             /\ client_hist' = [client_hist EXCEPT
                                  ![c].taken = Append(@, sample.pub)]
                        ELSE /\ take_out' = [take_out EXCEPT ![c] =
                                  Returned(c, [got EXCEPT !.ret = RMW_RET_OK,
                                                          !.ros_response = body],
                                           "mismatch")]
                             /\ UNCHANGED client_hist
    /\ UNCHANGED <<client_info, send_out, published, serviceVars>>

\* A sample reaches the response topic, and so the reader of every client.
Publish(sample) ==
    LET s == [valid_data |-> sample.valid_data, null |-> sample.null,
              wellformed |-> sample.wellformed, writer_guid |-> sample.writer_guid,
              sequence_number |-> sample.sequence_number, pub |-> Len(published) + 1]
    IN  /\ published' = Append(published, s)
        /\ response_reader' = [c \in Clients |-> Append(response_reader[c], s)]

\* A sample of `samples` that some other writer wrote reaches the response topic.
response_arrives(samples) ==
    /\ \E s \in samples : Publish(s)
    /\ UNCHANGED <<client_info, send_out, take_out, client_hist, serviceVars>>

\* The samples that a serialize step wrote for one of the clients.
SerializedSamples == {Serialized(g, n) : g \in WriterGuids, n \in {1, 2}}

\* ========================================================================
\* Service (the listener that fills message_queue, rmw_take_request,
\* rmw_send_response)
\* ========================================================================
AppThreads == {"t1", "t2"}

\* An entry of GurumddsServiceInfo::message_queue: the sample and its info, each
\* in a buffer of its own (`buf` names the pair; there is no sample buffer when
\* `null`).  Buffer 0 is no allocated buffer.
Entry(sample, buf) ==
    [valid_data |-> sample.valid_data, null |-> sample.null,
     wellformed |-> sample.wellformed, writer_guid |-> sample.writer_guid,
     sequence_number |-> sample.sequence_number, buf |-> buf]

NoEntryTaken == Entry(Sample(FALSE, TRUE, FALSE, ZeroGuid, 0), 0)

\* What front() of an empty std::queue may yield: the queue holds no element,
\* so the entry read is indeterminate (memory of the deque that holds no live
\* element), and so are the buffers it points to.
IndeterminateEntries ==
    {Entry(Sample(FALSE, TRUE, FALSE, ZeroGuid, 0), 0)}
    \cup {Entry(Serialized(g, 1), 0) : g \in WriterGuids}

AppIdle ==
    [pc |-> "idle", msg |-> NoEntryTaken, ret |-> NoRet, taken |-> FALSE,
     request_header |-> NoHeader, removed |-> 0, was_empty |-> FALSE]

AppOff == [AppIdle EXCEPT !.pc = "off"]

InitService ==
    /\ request_reader = <<>>
    /\ service_info = [message_queue |-> <<>>, queue_guard_condition |-> FALSE,
                       queue_mutex |-> "free", crashed |-> FALSE, empty_takes |-> 0,
                       enqueued |-> <<>>, popped |-> <<>>]
    /\ callback = [pc |-> "idle", pushed |-> 0, arrived |-> 0]
    /\ heap = [next |-> 1, samples |-> {}, infos |-> {}, bad_free |-> FALSE]

\* dds_free of the buffers `parts` of entry `e`.  Freeing a buffer that is not
\* allocated (freed before, or never allocated) is recorded in bad_free.
HeapFree(h, e, parts) ==
    [h EXCEPT !.samples = IF "sample" \in parts THEN @ \ {e.buf} ELSE @,
              !.infos = IF "info" \in parts THEN @ \ {e.buf} ELSE @,
              !.bad_free = \/ @
                           \/ ("sample" \in parts /\ e.buf \notin h.samples)
                           \/ ("info" \in parts /\ e.buf \notin h.infos)]

\* ---- the listener of the request reader ----
\* The listener runs when the request reader has data, and takes the queue mutex.
callback_lock ==
    /\ ~service_info.crashed
    /\ callback.pc = "idle"
    /\ request_reader # <<>>
    /\ service_info.queue_mutex = "free"
    /\ service_info' = [service_info EXCEPT !.queue_mutex = "callback"]
    /\ callback' = [callback EXCEPT !.pc = "push", !.pushed = 0]
    /\ UNCHANGED <<request_reader, app, heap, clientVars>>

\* It copies the oldest sample and its info into buffers and enqueues them.
callback_push ==
    /\ ~service_info.crashed
    /\ callback.pc = "push"
    /\ request_reader # <<>>
    /\ LET sample == Head(request_reader)
           e == Entry(sample, heap.next)
       IN  /\ service_info' = [service_info EXCEPT !.message_queue = Append(@, e),
                                                   !.enqueued = Append(@, e)]
           /\ heap' = [heap EXCEPT !.next = @ + 1,
                                   !.infos = @ \cup {e.buf},
                                   !.samples = IF sample.null THEN @ ELSE @ \cup {e.buf}]
    /\ request_reader' = Tail(request_reader)
    /\ callback' = [callback EXCEPT !.pushed = @ + 1]
    /\ UNCHANGED <<app, clientVars>>

\* With the entries enqueued it sets the guard condition and releases the mutex.
callback_signal ==
    /\ ~service_info.crashed
    /\ callback.pc = "push"
    /\ callback.pushed >= 1
    /\ service_info' = [service_info EXCEPT !.queue_guard_condition = TRUE,
                                            !.queue_mutex = "free"]
    /\ callback' = [callback EXCEPT !.pc = "idle", !.pushed = 0]
    /\ UNCHANGED <<request_reader, app, heap, clientVars>>

\* A sample of `samples` that some other writer wrote reaches the request reader.
request_arrives(samples) ==
    /\ \E s \in samples : request_reader' = Append(request_reader, s)
    /\ callback' = [callback EXCEPT !.arrived = @ + 1]
    /\ UNCHANGED <<service_info, app, heap, clientVars>>

\* ---- rmw_take_request ----
\* The application saw the guard condition of the queue set and calls
\* rmw_take_request; the call then waits for the queue mutex (line 158).
take_request_call(t) ==
    /\ ~service_info.crashed
    /\ app[t].pc = "idle"
    /\ service_info.queue_guard_condition
    /\ app' = [app EXCEPT ![t] = [AppIdle EXCEPT !.pc = "called"]]
    /\ UNCHANGED <<request_reader, service_info, callback, heap, clientVars>>

\* Lines 138-158: *taken = false; service_info->queue_mutex.lock().
take_request_lock(t) ==
    /\ ~service_info.crashed
    /\ app[t].pc \in {"idle", "called"}
    /\ service_info.queue_mutex = "free"
    /\ service_info' = [service_info EXCEPT !.queue_mutex = t]
    /\ app' = [app EXCEPT ![t] = [AppIdle EXCEPT !.pc = "front"]]
    /\ UNCHANGED <<request_reader, callback, heap, clientVars>>

\* The entry that front() names and the queue that pop() leaves.
QueueFront(q) == Head(q)
QueuePop(q) == Tail(q)

\* Lines 159-160: message_queue.front() and message_queue.pop(), with no test
\* for an empty queue.  On an empty queue both are undefined: the thread may
\* fault, or go on with an indeterminate entry and a queue that is empty or
\* reports an element it does not hold.
take_request_pop(t) ==
    /\ ~service_info.crashed
    /\ app[t].pc = "front"
    /\ IF service_info.message_queue # <<>>
       THEN /\ app' = [app EXCEPT ![t].pc = "clear",
                                  ![t].msg = QueueFront(service_info.message_queue),
                                  ![t].removed = 1]
            /\ service_info' = [service_info EXCEPT
                   !.message_queue = QueuePop(@),
                   !.popped = Append(@, QueueFront(service_info.message_queue))]
       ELSE \/ /\ service_info' = [service_info EXCEPT !.crashed = TRUE,
                                                         !.empty_takes = @ + 1]
               /\ app' = [app EXCEPT ![t].pc = "fault", ![t].was_empty = TRUE]
            \/ \E e \in IndeterminateEntries :
               \E q \in {<<>>, <<e>>} :
                  /\ app' = [app EXCEPT ![t].pc = "clear", ![t].msg = e,
                                        ![t].was_empty = TRUE]
                  /\ service_info' = [service_info EXCEPT !.message_queue = q,
                                                            !.empty_takes = @ + 1,
                                                            !.popped = Append(@, e)]
    /\ UNCHANGED <<request_reader, callback, heap, clientVars>>

\* Lines 161-164: clear the guard condition if the queue is now empty; unlock.
take_request_unlock(t) ==
    /\ ~service_info.crashed
    /\ app[t].pc = "clear"
    /\ service_info' = [service_info EXCEPT
          !.queue_guard_condition =
              IF service_info.message_queue = <<>> THEN FALSE ELSE @,
          !.queue_mutex = "free"]
    /\ app' = [app EXCEPT ![t].pc = "deser"]
    /\ UNCHANGED <<request_reader, callback, heap, clientVars>>

\* Lines 166-205: the popped entry is deserialized into the request header and
\* its buffers are released.
take_request_finish(t) ==
    /\ ~service_info.crashed
    /\ app[t].pc = "deser"
    /\ LET msg == app[t].msg
       IN  IF msg.valid_data
           THEN IF msg.null
                THEN \* lines 167-171: "Received invalid message"
                     /\ app' = [app EXCEPT ![t].pc = "done", ![t].ret = RMW_RET_ERROR]
                     /\ heap' = HeapFree(heap, msg, {"info"})
                ELSE IF ~msg.wellformed
                THEN \* lines 184-189: deserialize_request failed
                     /\ app' = [app EXCEPT ![t].pc = "done", ![t].ret = RMW_RET_ERROR]
                     /\ heap' = HeapFree(heap, msg, {"sample", "info"})
                ELSE \* lines 191-205
                     /\ app' = [app EXCEPT ![t].pc = "done", ![t].ret = RMW_RET_OK,
                                   ![t].taken = TRUE,
                                   ![t].request_header =
                                       [writer_guid |-> msg.writer_guid,
                                        sequence_number |-> msg.sequence_number]]
                     /\ heap' = HeapFree(heap, msg, {"sample", "info"})
           ELSE \* lines 198-205
                /\ app' = [app EXCEPT ![t].pc = "done", ![t].ret = RMW_RET_OK]
                /\ heap' = HeapFree(heap, msg,
                                    IF msg.null THEN {"info"} ELSE {"sample", "info"})
    /\ UNCHANGED <<request_reader, service_info, callback, clientVars>>

\* The application has read the result and does not answer.
take_request_return(t) ==
    /\ ~service_info.crashed
    /\ app[t].pc = "done"
    /\ app' = [app EXCEPT ![t] = AppIdle]
    /\ UNCHANGED <<request_reader, service_info, callback, heap, clientVars>>

\* rmw_send_response, lines 218-226: serialize_response is given
\* request_header->sequence_number and request_header->writer_guid.
ResponsePair(header) ==
    [writer_guid |-> header.writer_guid, sequence_number |-> header.sequence_number]

\* rmw_send_response, lines 204-243, called with the header that the
\* rmw_take_request before it filled.
rmw_send_response(t) ==
    /\ ~service_info.crashed
    /\ app[t].pc = "done"
    /\ app[t].ret = RMW_RET_OK
    /\ app[t].taken
    /\ \E fail \in {"none", "allocate", "serialize", "write"} :
        IF fail = "none"
        THEN LET pair == ResponsePair(app[t].request_header)
             IN  Publish(Serialized(pair.writer_guid, pair.sequence_number))
        ELSE UNCHANGED <<published, response_reader>>
    /\ app' = [app EXCEPT ![t] = AppIdle]
    /\ UNCHANGED <<client_info, send_out, take_out, client_hist,
                   request_reader, service_info, callback, heap>>

\* ========================================================================
\* Argument checks (rmw_send_request, rmw_take_request, rmw_take_response,
\* rmw_send_response, rmw_service_server_is_available)
\* ========================================================================
\* What can be wrong with the arguments of a call.
Defects == {"null_handle", "other_implementation", "null_message", "null_info"}

\* rmw_take_request and rmw_take_response write *taken = false after the
\* checks of the handle, the message buffer and the flag, and before the
\* check of the info record.
TakenWritten(a) == a = "null_info"

\* A check of the info record that comes after ++client_info->sequence_number.
Mut_send_request_checks_late(c, a) ==
    /\ send_out' = [send_out EXCEPT ![c].ret = RMW_RET_ERROR, ![c].fail = a]
    /\ client_info' = [client_info EXCEPT ![c].sequence_number =
                          IF a = "null_info" THEN @ + 1 ELSE @]
    /\ UNCHANGED <<take_out, response_reader, client_hist, published, serviceVars>>

\* rmw_send_request with the defect a: lines 36-55 return RMW_RET_ERROR.
rmw_send_request_invalid(c, a) ==
    /\ send_out' = [send_out EXCEPT ![c].ret = RMW_RET_ERROR, ![c].fail = a]
    /\ UNCHANGED <<client_info, take_out, response_reader, client_hist, published,
                   serviceVars>>

\* rmw_take_response with the defect a: part_002 lines 37-63.
rmw_take_response_invalid(c, a) ==
    /\ take_out' = [take_out EXCEPT ![c].ret = RMW_RET_ERROR,
                                    ![c].taken = IF TakenWritten(a) THEN FALSE ELSE @]
    /\ UNCHANGED <<client_info, send_out, response_reader, client_hist, published,
                   serviceVars>>

\* rmw_take_request with the defect a: lines 118-143, before the mutex.
rmw_take_request_invalid(t, a) ==
    /\ app[t].pc = "idle"
    /\ app' = [app EXCEPT ![t] = [AppIdle EXCEPT !.pc = "done", !.ret = RMW_RET_ERROR,
                                     !.taken = IF TakenWritten(a) THEN FALSE ELSE @]]
    /\ UNCHANGED <<request_reader, service_info, callback, heap, clientVars>>

\* rmw_send_response with the defect a: part_002 lines 170-190.
rmw_send_response_invalid(t, a) ==
    /\ app[t].pc = "idle"
    /\ app' = [app EXCEPT ![t] = [AppIdle EXCEPT !.pc = "done", !.ret = RMW_RET_ERROR]]
    /\ UNCHANGED <<request_reader, service_info, callback, heap, clientVars>>

\* rmw_service_server_is_available with the defect a: part_000 lines 487-522,
\* before *is_available = false.
is_available_invalid(a) ==
    /\ avail.pc = "idle"
    /\ avail' = [avail EXCEPT !.pc = "done", !.ret = RMW_RET_ERROR]
    /\ availHist' = [AvailHistIdle EXCEPT !.ret_subs = matched_subscriptions,
                                          !.ret_pubs = matched_publications]
    /\ UNCHANGED <<matched_subscriptions, matched_publications>>

\* ========================================================================
\* Topic names (rmw_create_client, rmw_create_service)
\* ========================================================================
\* Strings are sequences of characters.
ros_service_requester_prefix == <<"r", "q">>
ros_service_response_prefix == <<"r", "r">>
RequestSuffix == <<"R", "e", "q", "u", "e", "s", "t">>
ReplySuffix == <<"R", "e", "p", "l", "y">>

NameChars == {"/", "a", "r"}
RECURSIVE NamesOfLen(_)
NamesOfLen(n) ==
    IF n = 0 THEN {<<>>}
    ELSE {Append(w, ch) : w \in NamesOfLen(n - 1), ch \in NameChars}
\* The service names of a call: an empty name is refused before any name is
\* computed.
ServiceNames == UNION {NamesOfLen(n) : n \in 1..MaxNameLen}

NoNames == [pc |-> "start", request_topic_name |-> <<>>, response_topic_name |-> <<>>]

NamingQuiet ==
    [service_name |-> <<>>, avoid_ros_namespace_conventions |-> FALSE,
     client |-> NoNames, service |-> NoNames]

InitNaming ==
    \E name \in ServiceNames, avoid \in BOOLEAN :
       naming = [service_name |-> name, avoid_ros_namespace_conventions |-> avoid,
                 client |-> NoNames, service |-> NoNames]

\* A client that leaves the suffixes out when the caller opts out of the
\* conventions: a mutation.
Mut_client_names_no_suffix ==
    /\ naming.client.pc = "start"
    /\ naming' = [naming EXCEPT
          !.client = IF ~naming.avoid_ros_namespace_conventions
                     THEN [pc |-> "suffix",
                           request_topic_name |-> ros_service_requester_prefix \o naming.service_name,
                           response_topic_name |-> ros_service_response_prefix \o naming.service_name]
                     ELSE [pc |-> "done",
                           request_topic_name |-> naming.service_name,
                           response_topic_name |-> naming.service_name]]

\* rmw_create_client, lines 165-171: the names are assigned, with or without
\* the prefixes.
client_names_assign ==
    /\ naming.client.pc = "start"
    /\ naming' = [naming EXCEPT
          !.client = IF ~naming.avoid_ros_namespace_conventions
                     THEN [pc |-> "suffix",
                           request_topic_name |-> ros_service_requester_prefix \o naming.service_name,
                           response_topic_name |-> ros_service_response_prefix \o naming.service_name]
                     ELSE [pc |-> "suffix",
                           request_topic_name |-> naming.service_name,
                           response_topic_name |-> naming.service_name]]

\* rmw_create_client, lines 172-173.
client_names_suffix ==
    /\ naming.client.pc = "suffix"
    /\ naming' = [naming EXCEPT
          !.client.pc = "done",
          !.client.request_topic_name = @ \o RequestSuffix,
          !.client.response_topic_name = @ \o ReplySuffix]

\* rmw_create_service, lines 132-138: the names start empty and get the
\* prefixes unless the caller opts out.
service_names_prefix ==
    /\ naming.service.pc = "start"
    /\ naming' = [naming EXCEPT
          !.service.pc = "name",
          !.service.request_topic_name =
              IF ~naming.avoid_ros_namespace_conventions
              THEN @ \o ros_service_requester_prefix ELSE @,
          !.service.response_topic_name =
              IF ~naming.avoid_ros_namespace_conventions
              THEN @ \o ros_service_response_prefix ELSE @]

\* rmw_create_service, lines 140-141.
service_names_name ==
    /\ naming.service.pc = "name"
    /\ naming' = [naming EXCEPT
          !.service.pc = "suffix",
          !.service.request_topic_name = @ \o naming.service_name,
          !.service.response_topic_name = @ \o naming.service_name]

\* rmw_create_service, lines 142-143.
service_names_suffix ==
    /\ naming.service.pc = "suffix"
    /\ naming' = [naming EXCEPT
          !.service.pc = "done",
          !.service.request_topic_name = @ \o RequestSuffix,
          !.service.response_topic_name = @ \o ReplySuffix]

\* ========================================================================
\* Creation and destruction of a client or a service
\* (rmw_create_client, rmw_destroy_client, rmw_create_service,
\*  rmw_destroy_service)
\* ========================================================================
Kinds == {"client", "service"}

\* The native resources one client or service acquires.  A topic is either
\* created or, when the participant has it already, found: both give the
\* caller one reference that delete_topic gives back.
Resources ==
    {"info", "request_typesupport", "response_typesupport",
     "request_topic", "response_topic",
     "publisher", "writer", "subscriber", "reader", "read_condition",
     "handle", "service_name"}

\* The topics of the service name as the participant holds them: a topic is an
\* object that create_topic makes, and every create_topic and find_topic gives
\* one reference to it that delete_topic gives back; the object goes with its
\* last reference.
Topics == {"request_topic", "response_topic"}
ObjectOf(r) == IF r = "request_topic" THEN "request_topic_object" ELSE "response_topic_object"
TopicObjects == {ObjectOf(r) : r \in Topics}
NativeKeys == Resources \cup TopicObjects

\* The steps of a creation after the argument checks, in the order of the
\* code.  A step named after a resource acquires it; the others (a QoS
\* lookup or finalisation, a type registration, the trigger of the graph
\* guard condition) acquire nothing.  Each step can fail.
CreateSteps(kind) ==
    IF kind = "client"
    THEN <<"info", "request_topic", "response_topic",
           "publisher_qos", "publisher", "publisher_qos_finalize",
           "datawriter_qos", "writer",
           "subscriber_qos", "subscriber", "subscriber_qos_finalize",
           "datareader_qos", "reader", "read_condition",
           "handle", "service_name", "trigger">>
    ELSE <<"info", "request_typesupport", "request_register_type",
           "response_typesupport", "response_register_type",
           "request_topic", "request_topic_qos_finalize",
           "response_topic", "response_topic_qos_finalize",
           "subscriber_qos", "subscriber", "subscriber_qos_finalize",
           "datareader_qos", "reader", "datareader_qos_finalize",
           "read_condition",
           "publisher_qos", "publisher", "publisher_qos_finalize",
           "datawriter_qos", "writer", "datawriter_qos_finalize",
           "handle", "service_name", "trigger">>

\* What the fail block releases when the pointer is not null, in its order.
UnwindOrder(kind) ==
    IF kind = "client"
    THEN <<"handle", "writer", "publisher",
           "read_condition", "reader", "subscriber", "info">>
    ELSE <<"handle", "read_condition", "reader", "subscriber",
           "writer", "publisher", "request_topic", "response_topic",
           "request_typesupport", "response_typesupport", "info">>

\* What a successful rmw_create_service releases before it returns.
ReleasedOnSuccess(kind) ==
    IF kind = "client" THEN <<>>
    ELSE <<"request_typesupport", "response_typesupport">>

\* The order of rmw_destroy_*: a mutation that deletes the subscriber before
\* its reader and the info record before the publisher.
Mut_DestroyOrder_owner_first(kind) ==
    IF kind = "client"
    THEN <<"writer", "info", "publisher", "read_condition", "subscriber", "reader",
           "service_name", "handle">>
    ELSE <<"read_condition", "subscriber", "reader", "writer", "info", "publisher",
           "service_name", "handle">>

\* What rmw_destroy_* releases, in its order.
DestroyOrder(kind) ==
    IF kind = "client"
    THEN <<"writer", "publisher", "read_condition", "reader", "subscriber",
           "info", "service_name", "handle">>
    ELSE <<"read_condition", "reader", "subscriber", "writer", "publisher",
           "info", "service_name", "handle">>

\* The native deletes that return a code; the others free memory.
Fallible ==
    {"writer", "publisher", "read_condition", "reader", "subscriber",
     "request_topic", "response_topic"}

\* The entities a native entity contains: the transport refuses to delete
\* it while one of them is live.
Endpoints(r) ==
    CASE r = "publisher" -> {"writer"}
      [] r = "subscriber" -> {"reader"}
      [] r = "reader" -> {"read_condition"}
      [] OTHER -> {}

\* One native delete of r: whether it succeeds and what is live afterwards.
NativeDelete(nat, r, ok) ==
    LET blocked == \E e \in Endpoints(r) : nat[e] > 0
        done == (r \notin Fallible) \/ (ok /\ ~blocked)
    IN  [ok |-> done,
         double |-> done /\ nat[r] = 0,
         native |-> IF done /\ nat[r] > 0
                    THEN IF r \in Topics /\ nat[r] = 1
                         THEN [nat EXCEPT ![r] = 0, ![ObjectOf(r)] = 0]
                         ELSE [nat EXCEPT ![r] = @ - 1]
                    ELSE nat]

\* A creation that never looks the topic up: a mutation.
Mut_ObtainTopic_always_creates(nat, r) ==
    [nat EXCEPT ![r] = @ + 1, ![ObjectOf(r)] = @ + 1]

\* dds_DomainParticipant_lookup_topicdescription, then create_topic if the
\* participant has no topic of the name and find_topic if it has one.
ObtainTopic(nat, r) ==
    IF nat[ObjectOf(r)] = 0
    THEN [nat EXCEPT ![r] = @ + 1, ![ObjectOf(r)] = @ + 1]
    ELSE [nat EXCEPT ![r] = @ + 1]

NoNative == [r \in NativeKeys |-> 0]

LifeIdle ==
    [kind |-> "none", phase |-> "idle", pc |-> 0, held |-> {},
     failed_at |-> "none", ret |-> "none", rmw_ret |-> RMW_RET_OK,
     log |-> <<>>, detected |-> FALSE, double |-> FALSE,
     before |-> NoNative, calls |-> 0,
     triggers |-> 0, trigger_ret |-> "none", again |-> 0]

\* Before the call the participant may have either topic already, held by
\* another entity.
InitLife ==
    /\ native \in {n \in [NativeKeys -> {0, 1}] :
                      /\ \A r \in Resources \ Topics : n[r] = 0
                      /\ \A r \in Topics : n[ObjectOf(r)] = n[r]}
    /\ life = LifeIdle

LifeQuiet ==
    /\ native = NoNative
    /\ life = LifeIdle
    /\ naming = NamingQuiet
    /\ InitQuiet

\* The call passed its argument checks.
create_begin(kind) ==
    /\ life.phase = "idle"
    /\ life' = [life EXCEPT !.kind = kind, !.phase = "creating", !.pc = 1,
                            !.before = native]
    /\ UNCHANGED native

\* One creation step fails and goes to the fail block and so returns no
\* handle: a mutation that carries on without the resource.
Mut_create_step_carries_on ==
    /\ life.phase = "creating"
    /\ life.pc <= Len(CreateSteps(life.kind))
    /\ LET step == CreateSteps(life.kind)[life.pc]
       IN  \E ok \in BOOLEAN :
              IF ok /\ step \in Resources
              THEN /\ native' = IF step \in Topics
                                THEN ObtainTopic(native, step)
                                ELSE [native EXCEPT ![step] = @ + 1]
                   /\ life' = [life EXCEPT !.held = @ \cup {step}, !.pc = @ + 1]
              ELSE /\ life' = [life EXCEPT !.pc = @ + 1]
                   /\ UNCHANGED native

\* One creation step: it succeeds, or it fails and the code goes to fail.
create_step ==
    /\ life.phase = "creating"
    /\ life.pc <= Len(CreateSteps(life.kind))
    /\ LET step == CreateSteps(life.kind)[life.pc]
       IN  \E ok \in BOOLEAN :
              IF ok
              THEN IF step \in Resources
                   THEN /\ native' = IF step \in Topics
                                     THEN ObtainTopic(native, step)
                                     ELSE [native EXCEPT ![step] = @ + 1]
                        /\ life' = [life EXCEPT !.held = @ \cup {step}, !.pc = @ + 1]
                   ELSE /\ life' = [life EXCEPT !.pc = @ + 1,
                                     !.triggers = IF step = "trigger" THEN @ + 1 ELSE @,
                                     !.trigger_ret = IF step = "trigger"
                                                     THEN RMW_RET_OK ELSE @]
                        /\ UNCHANGED native
              ELSE /\ life' = [life EXCEPT !.phase = "unwinding", !.pc = 1,
                                           !.failed_at = step,
                                     !.triggers = IF step = "trigger" THEN @ + 1 ELSE @,
                                     !.trigger_ret = IF step = "trigger"
                                                     THEN RMW_RET_ERROR ELSE @]
                   /\ UNCHANGED native

RECURSIVE ReleaseAll(_, _)
ReleaseAll(nat, rs) ==
    IF rs = <<>> THEN nat
    ELSE ReleaseAll(NativeDelete(nat, Head(rs), TRUE).native, Tail(rs))

\* Every step succeeded: the handle is returned.
create_return ==
    /\ life.phase = "creating"
    /\ life.pc = Len(CreateSteps(life.kind)) + 1
    /\ native' = ReleaseAll(native, ReleasedOnSuccess(life.kind))
    /\ life' = [life EXCEPT !.phase = "created", !.ret = "handle",
                  !.held = @ \ {ReleasedOnSuccess(life.kind)[i] :
                                   i \in 1..Len(ReleasedOnSuccess(life.kind))}]

\* One statement of the fail block: release the resource if its pointer is
\* set; the code of a native delete is not looked at.
create_unwind ==
    /\ life.phase = "unwinding"
    /\ life.pc <= Len(UnwindOrder(life.kind))
    /\ LET r == UnwindOrder(life.kind)[life.pc]
       IN  IF r \in life.held
           THEN \E ok \in BOOLEAN :
                   LET d == NativeDelete(native, r, ok)
                   IN  /\ native' = d.native
                       /\ life' = [life EXCEPT !.pc = @ + 1,
                                     !.log = Append(@, r),
                                     !.detected = @ \/ ~d.ok,
                                     !.double = @ \/ d.double]
           ELSE /\ life' = [life EXCEPT !.pc = @ + 1]
                /\ UNCHANGED native

\* The end of the fail block.
create_fail_return ==
    /\ life.phase = "unwinding"
    /\ life.pc = Len(UnwindOrder(life.kind)) + 1
    /\ life' = [life EXCEPT !.phase = "failed", !.ret = "null"]
    /\ UNCHANGED native

\* rmw_destroy_* on the handle that the creation returned.
destroy_begin ==
    /\ life.phase = "created"
    /\ life' = [life EXCEPT !.phase = "destroying", !.pc = 1, !.log = <<>>,
                            !.rmw_ret = RMW_RET_OK, !.ret = "none",
                            !.before = native,
                            !.triggers = 0, !.trigger_ret = "none"]
    /\ UNCHANGED native

\* The sub-objects of the info record, in the order the creation sets them.
SubObjects(kind) ==
    IF kind = "client"
    THEN <<"publisher", "writer", "subscriber", "reader", "read_condition">>
    ELSE <<"subscriber", "reader", "read_condition", "publisher", "writer">>

\* rmw_destroy_* on a handle whose info record has only the first n
\* sub-objects set and the rest null.
destroy_begin_partial(kind, n) ==
    /\ life.phase = "idle"
    /\ LET present == {SubObjects(kind)[i] : i \in 1..n}
           held == present \cup {"info", "handle", "service_name"}
           nat == [r \in NativeKeys |-> IF r \in held THEN 1 ELSE native[r]]
       IN  /\ native' = nat
           /\ life' = [life EXCEPT !.kind = kind, !.phase = "destroying",
                                   !.pc = 1, !.held = held, !.before = nat]

\* The pointer that a sub-object is deleted through.
Owner(r) ==
    CASE r = "writer" -> "publisher"
      [] r = "reader" -> "subscriber"
      [] r = "read_condition" -> "reader"
      [] OTHER -> "info"

\* Whether the conditional chain gets as far as looking at r.
Examined(r, held) ==
    IF r = "read_condition" THEN "subscriber" \in held ELSE TRUE

\* One release of rmw_destroy_*: a sub-object is deleted if it and the
\* pointer it is deleted through are set, a sub-object without that pointer
\* is an inconsistent record, and a null sub-object is not touched.  On a
\* failed native delete or an inconsistent record the client records the
\* error and carries on; the service returns at once.
destroy_step ==
    /\ life.phase = "destroying"
    /\ life.pc <= Len(DestroyOrder(life.kind))
    /\ LET r == DestroyOrder(life.kind)[life.pc]
       IN  IF r \in life.held /\ Owner(r) \in life.held /\ Examined(r, life.held)
           THEN \E ok \in BOOLEAN :
                   LET d == NativeDelete(native, r, ok)
                   IN  /\ native' = d.native
                       /\ IF d.ok \/ life.kind = "client"
                          THEN life' = [life EXCEPT !.pc = @ + 1,
                                          !.log = Append(@, r),
                                          !.detected = @ \/ ~d.ok,
                                          !.double = @ \/ d.double,
                                          !.rmw_ret = IF d.ok THEN @ ELSE RMW_RET_ERROR]
                          ELSE life' = [life EXCEPT !.phase = "destroyed",
                                          !.log = Append(@, r),
                                          !.detected = TRUE,
                                          !.rmw_ret = RMW_RET_ERROR,
                                          !.ret = RMW_RET_ERROR]
           ELSE IF r \in life.held /\ Examined(r, life.held)
           THEN /\ UNCHANGED native
                /\ IF life.kind = "client"
                   THEN life' = [life EXCEPT !.pc = @ + 1, !.detected = TRUE,
                                             !.rmw_ret = RMW_RET_ERROR]
                   ELSE life' = [life EXCEPT !.phase = "destroyed",
                                             !.detected = TRUE,
                                             !.rmw_ret = RMW_RET_ERROR,
                                             !.ret = RMW_RET_ERROR]
           ELSE /\ UNCHANGED native
                /\ life' = [life EXCEPT !.pc = @ + 1]

\* The end of rmw_destroy_*: the result is that of the trigger of the graph
\* guard condition.
destroy_return ==
    /\ life.phase = "destroying"
    /\ life.pc = Len(DestroyOrder(life.kind)) + 1
    /\ \E ok \in BOOLEAN :
          LET code == IF ok THEN RMW_RET_OK ELSE RMW_RET_ERROR
          IN  life' = [life EXCEPT !.phase = "destroyed", !.rmw_ret = code,
                                   !.ret = code, !.triggers = @ + 1,
                                   !.trigger_ret = code]
    /\ UNCHANGED native

\* The caller goes on to another call for the same service name on the same
\* participant.  The entity of the call before, if it has one, stays as it
\* is and keeps its references to the topics; only the topics are followed.
\* rmw_destroy_service called again on the handle of a destruction that
\* returned at a failed delete: the handle and the record are still there,
\* and the record holds the pointers it held (none is set to null after its
\* delete, rmw_service.cpp:462-518).
destroy_again ==
    /\ life.phase = "destroyed"
    /\ life.ret = RMW_RET_ERROR
    /\ native["handle"] > 0
    /\ life' = [life EXCEPT !.phase = "destroying", !.pc = 1,
                            !.rmw_ret = RMW_RET_OK, !.ret = "none",
                            !.triggers = 0, !.trigger_ret = "none",
                            !.again = @ + 1]
    /\ UNCHANGED native

next_call ==
    /\ life.phase \in {"created", "failed", "destroyed"}
    /\ life' = [LifeIdle EXCEPT !.calls = life.calls + 1]
    /\ native' = [k \in NativeKeys |->
                     IF k \in Topics \cup TopicObjects THEN native[k] ELSE 0]

\* ========================================================================
\* Specifications
\* ========================================================================
\* The state of a subsystem that a specification leaves alone.
AvailQuiet ==
    /\ matched_subscriptions = 0
    /\ matched_publications = 0
    /\ avail = AvailIdle
    /\ availHist = AvailHistIdle

DiscQuiet ==
    /\ entity_type = "Publisher"
    /\ builtin_reader = <<>>
    /\ listener_mutex = "free"
    /\ topic_cache = EmptyCache
    /\ graph_guard_condition = FALSE
    /\ disc = DiscIdle
    /\ last_processed = NeverProcessed
    /\ query = QueryIdle
    /\ cache_run = NoRun

\* The clients and the service before any call.
RRQuiet ==
    /\ InitClients
    /\ InitService

AppQuiet == app = [t \in AppThreads |-> AppOff]

IsAvailableBegin == is_available_begin /\ UNCHANGED <<discVars, rrVars, lifeVars>>
IsAvailableQuerySubscriptions == is_available_query_subscriptions /\ UNCHANGED <<discVars, rrVars, lifeVars>>
IsAvailableQueryPublications == is_available_query_publications /\ UNCHANGED <<discVars, rrVars, lifeVars>>
IsAvailableDone == is_available_done /\ UNCHANGED <<discVars, rrVars, lifeVars>>
SubscriptionMatched == subscription_matched /\ UNCHANGED <<discVars, rrVars, lifeVars>>
PublicationMatched == publication_matched /\ UNCHANGED <<discVars, rrVars, lifeVars>>

NextAvail ==
    \/ IsAvailableBegin
    \/ IsAvailableQuerySubscriptions
    \/ IsAvailableQueryPublications
    \/ IsAvailableDone
    \/ SubscriptionMatched
    \/ PublicationMatched

InitSpecAvail == InitAvail /\ DiscQuiet /\ RRQuiet /\ AppQuiet /\ LifeQuiet

SpecAvail == InitSpecAvail /\ [][NextAvail]_vars

OnDataAvailableBegin == on_data_available_begin /\ UNCHANGED <<availVars, rrVars, lifeVars>>
OnDataAvailableTake == on_data_available_take /\ UNCHANGED <<availVars, rrVars, lifeVars>>
OnDataAvailableSample == on_data_available_sample /\ UNCHANGED <<availVars, rrVars, lifeVars>>
OnDataAvailableFinish == on_data_available_finish /\ UNCHANGED <<availVars, rrVars, lifeVars>>
OnDataAvailableReturn == on_data_available_return /\ UNCHANGED <<availVars, rrVars, lifeVars>>
DiscoverySampleArrives == discovery_sample_arrives /\ UNCHANGED <<availVars, rrVars, lifeVars>>
GraphGuardConditionTaken == graph_guard_condition_taken /\ UNCHANGED <<availVars, rrVars, lifeVars>>

NextDiscovery ==
    \/ OnDataAvailableBegin
    \/ OnDataAvailableTake
    \/ OnDataAvailableSample
    \/ OnDataAvailableFinish
    \/ OnDataAvailableReturn
    \/ DiscoverySampleArrives
    \/ GraphGuardConditionTaken

InitSpecDisc == InitDisc /\ AvailQuiet /\ RRQuiet /\ AppQuiet /\ LifeQuiet

SpecDisc == InitSpecDisc /\ [][NextDiscovery]_vars

\* ---- the discovery callback with a concurrent graph query ----
QueryLock == query_lock /\ UNCHANGED <<availVars, rrVars, lifeVars>>
QueryVisit == query_visit /\ UNCHANGED <<availVars, rrVars, lifeVars>>
QueryUnlock == query_unlock /\ UNCHANGED <<availVars, rrVars, lifeVars>>
QueryReturn == query_return /\ UNCHANGED <<availVars, rrVars, lifeVars>>
GraphSampleArrives ==
    /\ discovery_arrives({s \in DiscSamples :
                             s.valid_data /\ s.instance_handle # HANDLE_NIL},
                         MaxGraphPending)
    /\ UNCHANGED <<availVars, rrVars, lifeVars>>

NextGraph ==
    \/ OnDataAvailableBegin
    \/ OnDataAvailableTake
    \/ OnDataAvailableSample
    \/ OnDataAvailableFinish
    \/ OnDataAvailableReturn
    \/ GraphSampleArrives
    \/ QueryLock
    \/ QueryVisit
    \/ QueryUnlock
    \/ QueryReturn

InitSpecGraph == DiscQuiet /\ AvailQuiet /\ RRQuiet /\ AppQuiet /\ LifeQuiet

SpecGraph == InitSpecGraph /\ [][NextGraph]_vars

\* ---- the topic cache alone ----
CacheAddTopic == cache_add_topic /\ UNCHANGED <<availVars, rrVars, lifeVars>>
CacheRemoveTopic == cache_remove_topic /\ UNCHANGED <<availVars, rrVars, lifeVars>>

NextCache ==
    \/ CacheAddTopic
    \/ CacheRemoveTopic

InitSpecCache == InitDisc /\ AvailQuiet /\ RRQuiet /\ AppQuiet /\ LifeQuiet

SpecCache == InitSpecCache /\ [][NextCache]_vars

\* ---- the clients sending ----
ClientSendRequest ==
    /\ \E c \in Clients :
        /\ client_info[c].sequence_number < MaxSeq
        /\ rmw_send_request(c)
    /\ UNCHANGED <<availVars, discVars, lifeVars>>

NextSend == ClientSendRequest

InitSpecSend == RRQuiet /\ AppQuiet /\ AvailQuiet /\ DiscQuiet /\ LifeQuiet

SpecSend == InitSpecSend /\ [][NextSend]_vars

\* ---- the clients taking, with any traffic on the response topic ----
ClientTakeResponse == \E c \in Clients : rmw_take_response(c) /\ UNCHANGED <<availVars, discVars, lifeVars>>
ResponseArrives ==
    /\ Len(published) < MaxTraffic
    /\ response_arrives(SerializedSamples \cup {s \in ForeignSamples : ~s.null})
    /\ UNCHANGED <<availVars, discVars, lifeVars>>

NextTake ==
    \/ ClientTakeResponse
    \/ ResponseArrives

InitSpecTake == RRQuiet /\ AppQuiet /\ AvailQuiet /\ DiscQuiet /\ LifeQuiet

SpecTake == InitSpecTake /\ [][NextTake]_vars

\* ---- the service alone, with any traffic on the request topic ----
RequestArrives ==
    /\ callback.arrived < MaxArrivals
    /\ request_arrives(SerializedSamples \cup ForeignSamples)
    /\ UNCHANGED <<availVars, discVars, lifeVars>>
CallbackLock == callback_lock /\ UNCHANGED <<availVars, discVars, lifeVars>>
CallbackPush == callback_push /\ UNCHANGED <<availVars, discVars, lifeVars>>
CallbackSignal == callback_signal /\ UNCHANGED <<availVars, discVars, lifeVars>>
TakeRequestLock ==
    /\ service_info.message_queue # <<>> \/ service_info.empty_takes < MaxEmptyTakes
    /\ \E t \in AppThreads : take_request_lock(t)
    /\ UNCHANGED <<availVars, discVars, lifeVars>>
TakeRequestPop == \E t \in AppThreads : take_request_pop(t) /\ UNCHANGED <<availVars, discVars, lifeVars>>
TakeRequestUnlock == \E t \in AppThreads : take_request_unlock(t) /\ UNCHANGED <<availVars, discVars, lifeVars>>
TakeRequestFinish == \E t \in AppThreads : take_request_finish(t) /\ UNCHANGED <<availVars, discVars, lifeVars>>
TakeRequestReturn == \E t \in AppThreads : take_request_return(t) /\ UNCHANGED <<availVars, discVars, lifeVars>>

NextQueue ==
    \/ RequestArrives
    \/ CallbackLock
    \/ CallbackPush
    \/ CallbackSignal
    \/ TakeRequestLock
    \/ TakeRequestPop
    \/ TakeRequestUnlock
    \/ TakeRequestFinish
    \/ TakeRequestReturn

\* The listener thread and two application threads.
InitSpecQueue ==
    /\ RRQuiet
    /\ app = [t \in AppThreads |-> AppIdle]
    /\ AvailQuiet
    /\ DiscQuiet
    /\ LifeQuiet

SpecQueue == InitSpecQueue /\ [][NextQueue]_vars

\* ---- two clients and the service, end to end ----
SendRequest ==
    /\ \E c \in Clients :
        /\ client_info[c].sequence_number < MaxSeqRR
        /\ rmw_send_request(c)
    /\ UNCHANGED <<availVars, discVars, lifeVars>>
TakeResponse == \E c \in Clients : rmw_take_response(c) /\ UNCHANGED <<availVars, discVars, lifeVars>>
SendResponse == \E t \in AppThreads : rmw_send_response(t) /\ UNCHANGED <<availVars, discVars, lifeVars>>

NextRR ==
    \/ SendRequest
    \/ TakeResponse
    \/ CallbackLock
    \/ CallbackPush
    \/ CallbackSignal
    \/ TakeRequestLock
    \/ TakeRequestPop
    \/ TakeRequestUnlock
    \/ TakeRequestFinish
    \/ TakeRequestReturn
    \/ SendResponse

\* Two clients, the listener thread and one application thread.
InitSpecRR ==
    /\ RRQuiet
    /\ app = [t \in AppThreads |-> IF t = "t1" THEN AppIdle ELSE AppOff]
    /\ AvailQuiet
    /\ DiscQuiet
    /\ LifeQuiet

SpecRR == InitSpecRR /\ [][NextRR]_vars

\* ---- every operation that has the client or the service in hand ----
FrameSendRequest ==
    /\ client_info["A"].sequence_number < MaxFrameSends
    /\ rmw_send_request("A")
    /\ UNCHANGED <<availVars, discVars, lifeVars>>
\* The application takes a request when the guard condition of the queue is set.
FrameTakeRequestLock ==
    /\ service_info.queue_guard_condition
    /\ \E t \in AppThreads : take_request_lock(t)
    /\ UNCHANGED <<availVars, discVars, lifeVars>>
FrameTakeResponse == rmw_take_response("A") /\ UNCHANGED <<availVars, discVars, lifeVars>>

NextFrame ==
    \/ FrameSendRequest
    \/ FrameTakeResponse
    \/ CallbackLock
    \/ CallbackPush
    \/ CallbackSignal
    \/ FrameTakeRequestLock
    \/ TakeRequestPop
    \/ TakeRequestUnlock
    \/ TakeRequestFinish
    \/ TakeRequestReturn
    \/ SendResponse
    \/ IsAvailableBegin
    \/ IsAvailableQuerySubscriptions
    \/ IsAvailableQueryPublications
    \/ IsAvailableDone

\* Client A, one service with its listener and one application thread; the
\* client has its writer and its reader matched.
InitSpecFrame ==
    /\ RRQuiet
    /\ app = [t \in AppThreads |-> IF t = "t1" THEN AppIdle ELSE AppOff]
    /\ matched_subscriptions = 1
    /\ matched_publications = 1
    /\ avail = AvailIdle
    /\ availHist = AvailHistIdle
    /\ DiscQuiet
    /\ LifeQuiet

SpecFrame == InitSpecFrame /\ [][NextFrame]_vars

\* ---- the size of a batch: one announcement, repeated ----
BatchSampleArrives ==
    /\ discovery_arrives({DiscSample("g1", TRUE, TRUE, NoData)}, MaxBatchPending)
    /\ UNCHANGED <<availVars, rrVars, lifeVars>>

NextBatch ==
    \/ OnDataAvailableBegin
    \/ OnDataAvailableTake
    \/ OnDataAvailableSample
    \/ OnDataAvailableFinish
    \/ OnDataAvailableReturn
    \/ BatchSampleArrives
    \/ GraphGuardConditionTaken

InitSpecBatch == DiscQuiet /\ AvailQuiet /\ RRQuiet /\ AppQuiet /\ LifeQuiet

SpecBatch == InitSpecBatch /\ [][NextBatch]_vars

\* ---- calls with invalid arguments, against any traffic ----
SendRequestInvalid ==
    /\ \E c \in Clients : \E a \in Defects : rmw_send_request_invalid(c, a)
    /\ UNCHANGED <<availVars, discVars, lifeVars>>
TakeResponseInvalid ==
    /\ \E c \in Clients : \E a \in Defects : rmw_take_response_invalid(c, a)
    /\ UNCHANGED <<availVars, discVars, lifeVars>>
TakeRequestInvalid ==
    /\ \E t \in AppThreads : \E a \in Defects : rmw_take_request_invalid(t, a)
    /\ UNCHANGED <<availVars, discVars, lifeVars>>
SendResponseInvalid ==
    /\ \E t \in AppThreads : \E a \in Defects : rmw_send_response_invalid(t, a)
    /\ UNCHANGED <<availVars, discVars, lifeVars>>
IsAvailableInvalid ==
    /\ \E a \in Defects : is_available_invalid(a)
    /\ UNCHANGED <<discVars, rrVars, lifeVars>>

\* The traffic that the calls run against: requests and responses of client A.
ArgsSamples == {Serialized(WriterGuid["A"], 1)}
ArgsRequestArrives ==
    /\ callback.arrived < MaxArrivals
    /\ request_arrives(ArgsSamples)
    /\ UNCHANGED <<availVars, discVars, lifeVars>>
ArgsResponseArrives ==
    /\ Len(published) < MaxArgsTraffic
    /\ response_arrives(ArgsSamples)
    /\ UNCHANGED <<availVars, discVars, lifeVars>>

NextArgs ==
    \/ SendRequestInvalid
    \/ TakeResponseInvalid
    \/ TakeRequestInvalid
    \/ SendResponseInvalid
    \/ IsAvailableInvalid
    \/ IsAvailableDone
    \/ TakeRequestReturn
    \/ ArgsRequestArrives
    \/ CallbackLock
    \/ CallbackPush
    \/ CallbackSignal
    \/ ArgsResponseArrives

InitSpecArgs ==
    /\ RRQuiet
    /\ app = [t \in AppThreads |-> IF t = "t1" THEN AppIdle ELSE AppOff]
    /\ AvailQuiet
    /\ DiscQuiet
    /\ LifeQuiet

SpecArgs == InitSpecArgs /\ [][NextArgs]_vars

\* ---- creation and destruction of one client or service ----
CreateBegin == (\E kind \in Kinds : create_begin(kind)) /\ UNCHANGED <<availVars, discVars, rrVars, naming, initVars>>
CreateStep == create_step /\ UNCHANGED <<availVars, discVars, rrVars, naming, initVars>>
CreateReturn == create_return /\ UNCHANGED <<availVars, discVars, rrVars, naming, initVars>>
CreateUnwind == create_unwind /\ UNCHANGED <<availVars, discVars, rrVars, naming, initVars>>
CreateFailReturn == create_fail_return /\ UNCHANGED <<availVars, discVars, rrVars, naming, initVars>>
DestroyBegin == destroy_begin /\ UNCHANGED <<availVars, discVars, rrVars, naming, initVars>>
DestroyBeginPartial ==
    /\ \E kind \in Kinds : \E n \in 0..(Len(SubObjects(kind)) - 1) : destroy_begin_partial(kind, n)
    /\ UNCHANGED <<availVars, discVars, rrVars, naming, initVars>>
DestroyStep == destroy_step /\ UNCHANGED <<availVars, discVars, rrVars, naming, initVars>>
DestroyReturn == destroy_return /\ UNCHANGED <<availVars, discVars, rrVars, naming, initVars>>

NextLife ==
    \/ CreateBegin
    \/ CreateStep
    \/ CreateReturn
    \/ CreateUnwind
    \/ CreateFailReturn
    \/ DestroyBegin
    \/ DestroyBeginPartial
    \/ DestroyStep
    \/ DestroyReturn

InitSpecLife == InitLife /\ naming = NamingQuiet /\ InitQuiet /\ AvailQuiet /\ DiscQuiet /\ RRQuiet /\ AppQuiet

SpecLife == InitSpecLife /\ [][NextLife]_vars


\* ---- a sequence of creations and destructions for one service name ----
NextCall ==
    /\ life.calls < MaxCalls
    /\ next_call
    /\ UNCHANGED <<availVars, discVars, rrVars, naming, initVars>>

NextTopics ==
    \/ NextLife
    \/ NextCall

SpecTopics == InitSpecLife /\ [][NextTopics]_vars

\* ---- the topic names of a client and a service for one service name ----
ClientNamesAssign == client_names_assign /\ UNCHANGED <<availVars, discVars, rrVars, native, life, initVars>>
ClientNamesSuffix == client_names_suffix /\ UNCHANGED <<availVars, discVars, rrVars, native, life, initVars>>
ServiceNamesPrefix == service_names_prefix /\ UNCHANGED <<availVars, discVars, rrVars, native, life, initVars>>
ServiceNamesName == service_names_name /\ UNCHANGED <<availVars, discVars, rrVars, native, life, initVars>>
ServiceNamesSuffix == service_names_suffix /\ UNCHANGED <<availVars, discVars, rrVars, native, life, initVars>>

NextNaming ==
    \/ ClientNamesAssign
    \/ ClientNamesSuffix
    \/ ServiceNamesPrefix
    \/ ServiceNamesName
    \/ ServiceNamesSuffix

InitSpecNaming ==
    /\ InitNaming
    /\ native = NoNative
    /\ life = LifeIdle
    /\ InitQuiet
    /\ AvailQuiet
    /\ DiscQuiet
    /\ RRQuiet
    /\ AppQuiet

SpecNaming == InitSpecNaming /\ [][NextNaming]_vars

\* ---- a destruction that failed, called again ----
DestroyAgain ==
    /\ life.again < MaxAgain
    /\ destroy_again
    /\ UNCHANGED <<availVars, discVars, rrVars, naming, initVars>>

NextRetry == NextLife \/ DestroyAgain

SpecRetry == InitSpecLife /\ [][NextRetry]_vars

\* ---- the queue under fair scheduling: the listener and two application
\* ---- threads that call rmw_take_request when the guard condition is set
LiveCall == \E t \in AppThreads : take_request_call(t) /\ UNCHANGED <<availVars, discVars, lifeVars>>
LiveLock ==
    /\ \E t \in AppThreads : app[t].pc = "called" /\ take_request_lock(t)
    /\ UNCHANGED <<availVars, discVars, lifeVars>>

NextLive ==
    \/ ArgsRequestArrives
    \/ CallbackLock
    \/ CallbackPush
    \/ CallbackSignal
    \/ LiveCall
    \/ LiveLock
    \/ TakeRequestPop
    \/ TakeRequestUnlock
    \/ TakeRequestFinish
    \/ TakeRequestReturn

\* Every thread that can take a step takes one, and a thread that waits for
\* the mutex gets it if it is free again and again.
FairLive ==
    /\ SF_vars(CallbackLock)
    /\ WF_vars(CallbackPush \/ CallbackSignal)
    /\ WF_vars(LiveCall)
    /\ SF_vars(LiveLock)
    /\ WF_vars(TakeRequestPop)
    /\ WF_vars(TakeRequestUnlock)
    /\ WF_vars(TakeRequestFinish)
    /\ WF_vars(TakeRequestReturn)

SpecLive == InitSpecQueue /\ [][NextLive]_vars /\ FairLive

\* ---- the initialization functions, called in any order ----
RmwInitOptionsInit ==
    /\ \E o \in Options \cup {NULL}, allocator \in Allocators \cup {ZeroAllocator} :
          rmw_init_options_init(o, allocator)
    /\ UNCHANGED <<availVars, discVars, rrVars, native, life, naming>>
RmwInitOptionsCopy ==
    /\ \E src \in Options \cup {NULL}, dst \in Options \cup {NULL} :
          rmw_init_options_copy(src, dst)
    /\ UNCHANGED <<availVars, discVars, rrVars, native, life, naming>>
RmwInitOptionsFini ==
    /\ \E o \in Options \cup {NULL} : rmw_init_options_fini(o)
    /\ UNCHANGED <<availVars, discVars, rrVars, native, life, naming>>
RmwInit ==
    /\ \E o \in Options \cup {NULL}, ctx_null \in BOOLEAN, dpf \in {"factory", "nullptr"} :
          rmw_init(o, ctx_null, dpf)
    /\ UNCHANGED <<availVars, discVars, rrVars, native, life, naming>>
RmwShutdown ==
    /\ \E ctx_null \in BOOLEAN : rmw_shutdown(ctx_null)
    /\ UNCHANGED <<availVars, discVars, rrVars, native, life, naming>>
RmwContextFini ==
    /\ \E ctx_null \in BOOLEAN : rmw_context_fini(ctx_null)
    /\ UNCHANGED <<availVars, discVars, rrVars, native, life, naming>>

NextInit ==
    \/ RmwInitOptionsInit
    \/ RmwInitOptionsCopy
    \/ RmwInitOptionsFini
    \/ RmwInit
    \/ RmwShutdown
    \/ RmwContextFini

InitSpecInit ==
    /\ InitInit
    /\ native = NoNative
    /\ life = LifeIdle
    /\ naming = NamingQuiet
    /\ AvailQuiet
    /\ DiscQuiet
    /\ RRQuiet
    /\ AppQuiet

SpecInit == InitSpecInit /\ [][NextInit]_vars

\* ========================================================================
\* Claims about the initialization (checked under SpecInit)
\* ========================================================================
\* C34 (failures reach the result code): a call that set an error message
\* for a failure it detected does not return RMW_RET_OK; so rmw_init does
\* not return RMW_RET_OK when the domain participant factory cannot be
\* obtained.
C34_ErrorMeansFailureCode ==
    init_out.error_set => init_out.ret # RMW_RET_OK

\* Was object o zero-initialized before the last call?
WasZero(o) == init_out.before[o] = ZeroOptions

AddressedTo(c, k) ==
    SelectSeq([i \in 1..k |-> published[i]],
              LAMBDA s : /\ s.valid_data
                         /\ s.wellformed
                         /\ SameGuid(s.writer_guid, client_info[c].writer_guid))

\* How many samples the reader of client c has handed out.
ConsumedBy(c) == Len(published) - Len(response_reader[c])

\* C1 (correlation filtering): a take_response that returns taken = true
\* consumed a response whose embedded identity equals the client's own, and a
\* take_response that consumed a response carrying the other client's identity
\* returns RMW_RET_OK with taken = false.
C1_CorrelationFiltering ==
    \A c \in Clients :
        LET out == take_out[c]
        IN  /\ out.taken =>
                /\ out.consumed.valid_data
                /\ SameGuid(out.consumed.writer_guid, client_info[c].writer_guid)
            /\ \A d \in Clients \ {c} :
                (/\ out.consumed.valid_data
                 /\ out.consumed.wellformed
                 /\ SameGuid(out.consumed.writer_guid, client_info[d].writer_guid))
                    => (out.ret = RMW_RET_OK /\ ~out.taken)

\* Client A has taken a response of its own and client B has consumed and
\* dropped a response addressed to A.
C1_Witness ==
    /\ take_out["A"].taken
    /\ SameGuid(take_out["A"].consumed.writer_guid, client_info["A"].writer_guid)
    /\ take_out["B"].consumed.valid_data
    /\ take_out["B"].consumed.wellformed
    /\ SameGuid(take_out["B"].consumed.writer_guid, client_info["A"].writer_guid)
    /\ take_out["B"].ret = RMW_RET_OK
    /\ ~take_out["B"].taken

\* A response that was written for client c: well-formed data that carries
\* c's identity.
IsResponseFor(c, s) ==
    s.valid_data /\ s.wellformed /\ s.writer_guid = client_info[c].writer_guid

\* How many samples stand before c's first response in c's reader (the number
\* of samples in the reader when none is addressed to c).
Ahead(c, reader) ==
    Cardinality({i \in 1..Len(reader) :
                    \A j \in 1..i : ~IsResponseFor(c, reader[j])})

\* C29 (one sample per call): no step takes more than one sample out of a
\* client's response reader; a rmw_take_response call that finds a sample and
\* does not fail before the take consumes exactly the oldest one, returns
\* taken = true when that sample is addressed to the caller and taken = false
\* when it is not, and does not leave it in the reader.  So each such call
\* that meets a foreign sample brings the caller's next response one place
\* nearer, and the call that finds it at the head takes it.
C29_OneSamplePerTake ==
    /\ [][\A c \in Clients :
             Len(response_reader'[c]) >= Len(response_reader[c]) - 1]_vars
    /\ [][\A c \in Clients :
             (/\ response_reader[c] # <<>>
              /\ \/ take_out'[c] # take_out[c]
                 \/ Len(response_reader'[c]) < Len(response_reader[c]))
             => LET s == Head(response_reader[c])
                IN  \/ \* the call failed before the take
                       /\ take_out'[c].ret = RMW_RET_ERROR
                       /\ take_out'[c].consumed = NoSample
                       /\ ~take_out'[c].taken
                       /\ response_reader'[c] = response_reader[c]
                    \/ /\ take_out'[c].consumed = s
                       /\ response_reader'[c] = Tail(response_reader[c])
                       /\ take_out'[c].taken <=> IsResponseFor(c, s)
                       /\ IsResponseFor(c, s) => take_out'[c].ret = RMW_RET_OK
                       /\ (~IsResponseFor(c, s) /\ Ahead(c, response_reader[c]) > 0) =>
                             Ahead(c, response_reader'[c])
                                 = Ahead(c, response_reader[c]) - 1]_vars

\* Client A's response was published behind two responses addressed to client
\* B; A has consumed all three, one per call, and the call that consumed the
\* third returned taken = true.
C29_Witness ==
    /\ Len(published) = 3
    /\ IsResponseFor("B", published[1])
    /\ IsResponseFor("B", published[2])
    /\ IsResponseFor("A", published[3])
    /\ response_reader["A"] = <<>>
    /\ take_out["A"].taken
    /\ take_out["A"].consumed = published[3]
    /\ client_hist["A"].taken = <<3>>

\* C31 (identity and counter of a client): the writer identity a client got
\* at its creation never changes; its sequence counter starts at 0, never
\* decreases, and a step that changes it is a step of rmw_send_request:
\* rmw_take_response, rmw_service_server_is_available, the listener,
\* rmw_take_request and rmw_send_response leave both as they are.
C31_IdentityAndCounterFrame ==
    /\ \A c \in Clients : /\ client_info[c].sequence_number = 0
                          /\ client_info[c].writer_guid = WriterGuid[c]
    /\ [][\A c \in Clients :
             /\ client_info'[c].writer_guid = client_info[c].writer_guid
             /\ client_info'[c].sequence_number >= client_info[c].sequence_number
             /\ client_info'[c].sequence_number # client_info[c].sequence_number =>
                   /\ send_out'[c].fail \in {"none", "serialize", "write"}
                   /\ UNCHANGED <<take_out, response_reader, published,
                                  service_info, callback, app, heap, availVars>>]_vars

\* Client A has sent a request and its counter is 1; the service has taken
\* the request and answered, the client has taken the response, and a probe
\* of the server has returned.
C31_Witness ==
    /\ client_info["A"].sequence_number = 1
    /\ client_info["A"].writer_guid = WriterGuid["A"]
    /\ take_out["A"].taken
    /\ avail.pc = "done"
    /\ avail.ret = RMW_RET_OK
    /\ service_info.popped # <<>>

\* C33 (temporaries of rmw_take_response): whatever path a call returned by
\* (a sequence that cannot be created, no data, a failed take, a sample
\* without valid data, a failed deserialization, another client's identity,
\* success), after it and after any sequence of calls no loan is held, none
\* of the three sequences exists, and no sequence was deleted that did not
\* exist.
C33_TemporariesReleased ==
    \A c \in Clients : take_out[c].temporaries = NoTemporaries

\* Client A has returned from a failed deserialization and client B from a
\* response that carries A's identity.
C33_Witness ==
    /\ take_out["A"].consumed.valid_data
    /\ ~take_out["A"].consumed.wellformed
    /\ take_out["A"].ret = RMW_RET_ERROR
    /\ IsResponseFor("A", take_out["B"].consumed)
    /\ take_out["B"].ret = RMW_RET_OK
    /\ ~take_out["B"].taken

\* C36 (outputs of a take that took nothing): a rmw_take_response call that
\* returns taken = false leaves the request header and the caller's
\* ros_response buffer as they were before the call.
C36_NotTakenLeavesOutputs ==
    [][\A c \in Clients :
          (take_out'[c] # take_out[c] /\ ~take_out'[c].taken) =>
             /\ take_out'[c].request_header = take_out[c].request_header
             /\ take_out'[c].ros_response = take_out[c].ros_response]_vars

\* C37 (a failed send changes nothing): a rmw_send_request call that returns
\* a failure code leaves the sequence counter of the client at the value it
\* had before the call, publishes nothing and does not write sequence_id.
C37_FailedSendLeavesState ==
    [][\A c \in Clients :
          ((send_out'[c] # send_out[c] \/ client_info'[c] # client_info[c])
            /\ send_out'[c].ret # RMW_RET_OK) =>
             /\ client_info'[c].sequence_number = client_info[c].sequence_number
             /\ request_reader' = request_reader
             /\ send_out'[c].sequence_id = send_out[c].sequence_id]_vars

\* C2 (sequence monotonicity): the sequence ids that the successful
\* rmw_send_request calls of one client returned are strictly increasing and
\* the first of them is 1, whichever calls failed in between.
C2_SequenceIdsFromOne ==
    \A c \in Clients :
        LET returned == client_hist[c].returned
        IN  /\ \A i \in 1..(Len(returned) - 1) : returned[i] < returned[i + 1]
            /\ returned # <<>> => returned[1] = 1

\* C8 (response ordering): the responses a client was handed with taken = true
\* are exactly the responses addressed to it among those its reader has handed
\* out, in publication order.
C8_ResponsesInPublicationOrder ==
    \A c \in Clients :
        LET mine == AddressedTo(c, ConsumedBy(c))
        IN  client_hist[c].taken = [i \in 1..Len(mine) |-> mine[i].pub]

\* Client A has taken two responses of its own around one addressed to B.
C8_Witness ==
    /\ Len(client_hist["A"].taken) = 2
    /\ ConsumedBy("A") = 3
    /\ SameGuid(published[2].writer_guid, client_info["B"].writer_guid)
    /\ published[1].sequence_number # published[3].sequence_number

\* ========================================================================
\* Claims about the service
\* ========================================================================
\* C3 (queue / guard-condition coupling): whenever no thread holds the queue
\* mutex, the queue guard condition is true exactly when the request queue is
\* not empty.
C3_GuardIffQueueNonEmpty ==
    service_info.queue_mutex = "free"
        => (service_info.queue_guard_condition <=> service_info.message_queue # <<>>)

\* The buffers that are owned by the queue or by a rmw_take_request that has
\* popped its entry and not yet released it.
OwnedEntries ==
    {service_info.message_queue[i] : i \in DOMAIN service_info.message_queue}
    \cup {app[t].msg : t \in {u \in AppThreads : app[u].pc \in {"clear", "deser"}}}

\* C6 (one entry per take, buffers released once): a rmw_take_request that has
\* reached the queue removed exactly one entry; an entry without valid data
\* gives RMW_RET_OK with taken = false; no buffer is freed that is not
\* allocated, and the allocated buffers are exactly those of the entries still
\* owned.
C6_TakeRemovesOneFreesOnce ==
    /\ \A t \in AppThreads :
        /\ app[t].pc \in {"clear", "deser", "done", "fault"} => app[t].removed = 1
        /\ (app[t].pc = "done" /\ ~app[t].msg.valid_data)
               => (app[t].ret = RMW_RET_OK /\ ~app[t].taken)
    /\ ~heap.bad_free
    /\ heap.infos = {e.buf : e \in OwnedEntries}
    /\ heap.samples = {e.buf : e \in {o \in OwnedEntries : ~o.null}}

\* C7 (benign empty take): a rmw_take_request that finds the queue empty
\* returns RMW_RET_OK with taken = false and leaves the queue empty and the
\* guard condition false; a rmw_take_response that finds no sample returns
\* RMW_RET_OK with taken = false.
C7_EmptyTakeIsBenign ==
    /\ ~service_info.crashed
    /\ \A t \in AppThreads :
        /\ (app[t].was_empty /\ app[t].pc = "clear")
               => (service_info.message_queue = <<>> /\ ~service_info.queue_guard_condition)
        /\ (app[t].was_empty /\ app[t].pc = "done")
               => (app[t].ret = RMW_RET_OK /\ ~app[t].taken)
    /\ \A c \in Clients :
        take_out[c].no_data => (take_out[c].ret = RMW_RET_OK /\ ~take_out[c].taken)

\* C28 (first-in first-out): at every moment the entries that the
\* rmw_take_request calls have popped so far, in the order of the pops, are
\* the first entries that the listener enqueued, in the order it enqueued
\* them, and what is still queued is the rest.
C28_ServedFirstInFirstOut ==
    LET n == Len(service_info.popped)
    IN  /\ n <= Len(service_info.enqueued)
        /\ service_info.popped = SubSeq(service_info.enqueued, 1, n)
        /\ service_info.message_queue =
               SubSeq(service_info.enqueued, n + 1, Len(service_info.enqueued))

C32_QueryFailureReleasesSequence ==
    /\ avail.seq \in {0, 1}
    /\ avail.pc = "done" => avail.seq = 0
    /\ (avail.pc = "done" /\ avail.failed \in {"subscriptions", "publications"}) =>
          (avail.ret = RMW_RET_ERROR /\ ~avail.is_available)

\* The second query failed although both endpoints are matched.
C32_Witness ==
    /\ avail.pc = "done"
    /\ avail.failed = "publications"
    /\ matched_subscriptions > 0
    /\ matched_publications > 0

\* C4: when the match state does not change during the call and no transport
\* query fails, rmw_service_server_is_available returns RMW_RET_OK with
\* is_available = TRUE if and only if the request writer has a matched
\* subscription and the response reader has a matched publication.
C4_AvailableIffBothMatched ==
    (avail.pc = "done" /\ avail.ret = RMW_RET_OK /\ ~availHist.changed)
        => (avail.is_available
              <=> (availHist.ret_subs > 0 /\ availHist.ret_pubs > 0))

\* A stable, fully matched probe has answered "available".
C4_Witness ==
    /\ avail.pc = "done" /\ avail.ret = RMW_RET_OK /\ ~availHist.changed
    /\ availHist.ret_subs > 0 /\ availHist.ret_pubs > 0
    /\ avail.is_available

\* C5 as stated: a call that answers is_available = TRUE has, at the moment
\* it returns, a matched subscription on the request writer and a matched
\* publication on the response reader.
C5_NoFalsePositiveAtReturn ==
    (avail.pc = "done" /\ avail.is_available)
        => (availHist.ret_subs > 0 /\ availHist.ret_pubs > 0)

\* C5 amended: a call that answers is_available = TRUE has seen each count
\* non-zero at the moment of its own query: the request writer had a matched
\* subscription when the first query ran and the response reader had a
\* matched publication when the second query ran.
C5_PositiveSeenByEachQuery ==
    (avail.pc = "done" /\ avail.is_available)
        => (availHist.q1_subs > 0 /\ availHist.q2_pubs > 0
            /\ avail.ret = RMW_RET_OK)

\* The probe answered "available" although the match state changed under it.
C5_Witness ==
    /\ avail.pc = "done" /\ avail.is_available /\ availHist.changed
    /\ availHist.ret_subs = 0

\* ========================================================================
\* Claims about the discovery listener (checked under SpecDisc)
\* ========================================================================

\* C10: an invocation of the discovery callback whose take returned N >= 1
\* samples triggers the graph guard condition exactly once: never more than
\* once while it runs, and exactly once when it has returned.
C10_BatchTriggersOnce ==
    /\ disc.triggers <= 1
    /\ (disc.pc = "done" /\ disc.ret = dds_RETCODE_OK /\ disc.length >= 1)
          => disc.triggers = 1

\* A callback has returned from a batch of two samples with one trigger.
C10_Witness ==
    /\ disc.pc = "done" /\ disc.ret = dds_RETCODE_OK
    /\ disc.length >= 2 /\ disc.triggers = 1

\* C11: the callback triggers the graph guard condition only if at least one
\* sample of its batch was processed (led to add_topic or remove_topic); a
\* batch whose samples were all skipped triggers nothing.
C11_TriggerOnlyIfProcessed ==
    disc.triggers >= 1 => disc.skipped < disc.length

\* The entry that a valid-data alive sample with the payload `data` stands for.
EntryOf(data) ==
    [participant |-> data.participant_key, topic_name |-> data.topic_name,
     type_name |-> "type", qos |-> DiscoveredQos(entity_type)]

\* C12: the cache holds an entry for a guid exactly when the most recently
\* processed sample of the guid was a valid-data alive sample, and the entry
\* then carries that sample's participant, topic name, type name and QoS; no
\* guid is indexed under two participants; when the loop over a batch is over,
\* the most recent sample of every guid is the one that sequence order makes
\* the most recent.
C12_CacheMatchesLastSample ==
    /\ \A g \in Guids :
        /\ topic_cache.info[g] = IF last_processed[g].alive
                                 THEN EntryOf(last_processed[g].data)
                                 ELSE NoEntry
        /\ \A p \in Participants :
            g \in topic_cache.by_participant[p]
                <=> (last_processed[g].alive
                     /\ last_processed[g].data.participant_key = p)
    /\ (disc.pc = "loop" /\ disc.batch = <<>>) => last_processed = disc.final

\* A batch of two samples was applied: a guid announced by one participant and
\* then by another, or one guid announced and the other withdrawn.
C12_Witness ==
    /\ disc.pc = "loop" /\ disc.batch = <<>> /\ disc.length >= 2 /\ disc.skipped = 0
    /\ topic_cache.info["g1"] = EntryOf([participant_key |-> "p2", topic_name |-> "tb"])
    /\ topic_cache.info["g2"] = NoEntry

\* The callback ended because a sequence could not be created or because the
\* take failed with a code other than no-data.
DiscFailed(d) == d.pc = "done" /\ d.ret \in {"no sequence", dds_RETCODE_ERROR}

\* C25: a discovery callback that cannot create its sequences, or whose take
\* fails, is contained: from its start to its return no step of it changes
\* the topic cache, the guard condition or the samples in the built-in
\* reader; it ends at once, with no loan and no sequence left and the mutex
\* free, so the next invocation finds the samples and processes them.
C25_FailureContained ==
    /\ [](DiscFailed(disc) =>
             /\ disc.length = 0 /\ disc.skipped = 0 /\ disc.triggers = 0
             /\ ~disc.loan /\ disc.seqs = 0
             /\ listener_mutex = "free")
    /\ [][(disc.pc \in {"idle", "take"} /\ disc' # disc /\ disc'.pc # "loop") =>
             /\ topic_cache' = topic_cache
             /\ graph_guard_condition' = graph_guard_condition
             /\ builtin_reader' = builtin_reader
             /\ last_processed' = last_processed]_vars
    /\ [][DiscFailed(disc) =>
             (disc' = disc \/ (disc' = DiscIdle /\ listener_mutex' = "free"
                               /\ topic_cache' = topic_cache
                               /\ builtin_reader' = builtin_reader))]_vars

C25_Witness ==
    /\ DiscFailed(disc)
    /\ disc.ret = dds_RETCODE_ERROR
    /\ builtin_reader # <<>>
    /\ \E g \in Guids : topic_cache.info[g] # NoEntry

\* C26: one invocation of the discovery callback processes at most 8
\* samples; what is in the built-in reader beyond the eighth stays there for
\* a later invocation.
C26_BatchAtMostEight ==
    /\ disc.length <= SequenceCapacity
    /\ Len(disc.batch) <= SequenceCapacity

\* C27: a sample with a null instance handle leads to neither add_topic nor
\* remove_topic and does not end the batch: the step that meets it leaves the
\* cache as it is and goes on with the next sample, and when the loop is over
\* the cache holds what the other samples of the batch, applied in order,
\* leave.
C27_NullHandleSkipped ==
    /\ []((disc.pc = "loop" /\ disc.batch = <<>>) =>
             \A g \in Guids :
                topic_cache.info[g] = IF disc.final[g].alive
                                      THEN EntryOf(disc.final[g].data)
                                      ELSE NoEntry)
    /\ [][(disc.pc = "loop" /\ disc.batch # <<>> /\ disc' # disc
            /\ Head(disc.batch).instance_handle = HANDLE_NIL) =>
             /\ topic_cache' = topic_cache
             /\ disc'.pc = "loop"
             /\ disc'.batch = Tail(disc.batch)
             /\ disc'.skipped = disc.skipped + 1]_vars

\* A null handle was skipped and the callback goes on with the announcement
\* that follows it in the batch.
C27_Witness ==
    /\ disc.pc = "loop"
    /\ disc.skipped = 1
    /\ disc.length = 2
    /\ disc.batch # <<>>
    /\ Head(disc.batch).instance_handle # HANDLE_NIL
    /\ Head(disc.batch).valid_data /\ Head(disc.batch).alive

\* C38 (removal only for what is not alive): an entry leaves the cache only
\* in the step in which the callback handles a sample of that GUID whose
\* instance state is not alive; a sample with alive instance state, with or
\* without valid data, removes no entry.
C38_RemovedOnlyWhenNotAlive ==
    [][\A g \in Guids :
          (topic_cache.info[g] # NoEntry /\ topic_cache'.info[g] = NoEntry) =>
             /\ disc.pc = "loop"
             /\ disc.batch # <<>>
             /\ Head(disc.batch).instance_handle = g
             /\ ~Head(disc.batch).alive]_vars

\* ========================================================================
\* Claims about the topic cache (checked under SpecCache)
\* ========================================================================
\* C13 (cache idempotence): after a sequence of add_topic calls with the same
\* guid and varying payloads, the cache (primary map and per-participant index)
\* equals the cache after only the last call of the sequence; in particular
\* the same alive event delivered twice leaves what one delivery leaves.
C13_AddTopicIdempotent ==
    cache_run.op = "add" =>
        topic_cache = add_topic(cache_run.base, cache_run.data.participant_key,
                                cache_run.guid, cache_run.data.topic_name, "type",
                                DiscoveredQos(entity_type))

\* Three add_topic calls in a row for one guid that had no entry, the last of
\* them with a payload that differs from the one before.
C13_Witness ==
    /\ cache_run.op = "add"
    /\ cache_run.len = 3
    /\ cache_run.base.info[cache_run.guid] = NoEntry
    /\ cache_run.before # topic_cache

\* C14 (remove is idempotent): remove_topic for a guid that has no entry, or
\* called again after a first removal, leaves the cache unchanged.
C14_RemoveTopicIdempotent ==
    (/\ cache_run.op = "remove"
     /\ \/ cache_run.before.info[cache_run.guid] = NoEntry
        \/ cache_run.len >= 2)
        => topic_cache = cache_run.before

\* A first remove_topic deleted the entry of a guid and a second one followed
\* while the other guid has an entry.
C14_Witness ==
    /\ cache_run.op = "remove"
    /\ cache_run.len = 2
    /\ cache_run.base.info[cache_run.guid] # NoEntry
    /\ \E g \in Guids : topic_cache.info[g] # NoEntry

\* ========================================================================
\* Claims about graph queries (checked under SpecGraph)
\* ========================================================================
\* C15 (snapshot consistency): the topic cache changes only while the
\* discovery callback holds the listener's mutex, and a graph query that runs
\* next to the callback sees the cache of one moment between two batches: it
\* never starts inside a batch, and every entry it has visited is the entry the
\* cache held when the query began.
C15_SnapshotConsistency ==
    /\ [](query.pc \in {"read", "done"} =>
            /\ ~query.mid_batch
            /\ \A g \in Guids \ query.todo : query.seen[g] = query.at_lock[g])
    /\ [][topic_cache' # topic_cache => listener_mutex = "callback"]_vars

\* A query has read an entry that an earlier batch added, while further
\* samples wait in the built-in reader for the callback.
C15_Witness ==
    /\ query.pc = "read"
    /\ query.todo = {}
    /\ \E g \in Guids : query.seen[g] # NoEntry
    /\ builtin_reader # <<>>
    /\ disc.pc = "idle"

\* ========================================================================
\* Claims about creation and destruction (checked under SpecLife)
\* ========================================================================
\* C16: when rmw_create_client or rmw_create_service fails at a creation
\* step it returns null with exactly the native resources live that were
\* live before the call, and nothing was released twice.
C16_UnwindRestoresNative ==
    life.phase = "failed" => (native = life.before /\ ~life.double)

\* What a handle given to the caller stands on.
FullyBuilt ==
    {"info", "publisher", "subscriber", "writer", "reader", "read_condition",
     "handle", "service_name"}

\* C17: a creation returns null or a handle whose info record is fully
\* built: publisher, subscriber, writer, reader and read condition are set
\* and live, and the handle has its service name.
C17_NullOrFullyBuilt ==
    /\ life.phase \in {"created", "failed"} => life.ret \in {"null", "handle"}
    /\ life.phase = "failed" => life.ret = "null"
    /\ life.ret = "handle" =>
          \A r \in FullyBuilt : r \in life.held /\ native[r] > 0

C17_Witness ==
    /\ life.phase = "created"
    /\ life.ret = "handle"
    /\ life.kind = "service"

\* Who must be deleted before whom: an endpoint before its owner, a group
\* before the info record.
DeletedBefore ==
    {<<"read_condition", "reader">>, <<"reader", "subscriber">>,
     <<"writer", "publisher">>,
     <<"publisher", "info">>, <<"subscriber", "info">>}

InLog(r) == \E i \in 1..Len(life.log) : life.log[i] = r

Tearing == life.phase \in {"unwinding", "failed", "destroying", "destroyed"}

\* r went through its delete and is gone.
Deleted(r) == InLog(r) /\ native[r] = 0

\* C18 as stated: in a destruction and in the unwind of a failed creation,
\* the read condition is deleted before its reader, the reader before its
\* subscriber, the writer before its publisher, and the info record only
\* after its groups: nothing is deleted while what it owns is still live.
C18_DeletedInStrictOrder ==
    Tearing =>
       \A p \in DeletedBefore :
          (p[1] \in life.held /\ Deleted(p[2])) => native[p[1]] = 0

\* C18 as amended: the delete calls are issued in that order (whenever the
\* owner's delete is called, the delete of what it owns was called before
\* it), and when no native delete failed the owner is deleted only after
\* what it owns is gone.
C18_DeleteCallsInStrictOrder ==
    Tearing =>
       /\ \A p \in DeletedBefore :
             \A j \in 1..Len(life.log) :
                (life.log[j] = p[2] /\ p[1] \in life.held)
                   => \E i \in 1..(j - 1) : life.log[i] = p[1]
       /\ ~life.detected => C18_DeletedInStrictOrder

C18_Witness ==
    /\ life.phase = "destroyed"
    /\ life.kind = "client"
    /\ life.detected
    /\ Deleted("info")
    /\ native["publisher"] > 0

\* C19: a destruction is not aborted by a failed native delete: when it
\* returns, every release of its order was carried out, and the info
\* record, the service name and the handle are gone.
C19_TeardownNotAborted ==
    life.phase = "destroyed" =>
       /\ \A i \in 1..Len(DestroyOrder(life.kind)) : InLog(DestroyOrder(life.kind)[i])
       /\ native["info"] = 0
       /\ native["service_name"] = 0
       /\ native["handle"] = 0

\* C20: when a destruction detected a failed native delete, the code it
\* returns is not RMW_RET_OK.
C20_FailureReachesCaller ==
    (life.phase = "destroyed" /\ life.detected) => life.ret # RMW_RET_OK

\* The sub-objects of the record that rmw_destroy_* was called on.
Present == {r \in life.held : \E i \in 1..Len(SubObjects(life.kind)) : SubObjects(life.kind)[i] = r}

Count(r) == Cardinality({i \in 1..Len(life.log) : life.log[i] = r})

\* C21: rmw_destroy_* on a record that holds a creation-order prefix of the
\* sub-objects deletes exactly the sub-objects that are present, each once,
\* frees the record, the service name and the handle, and touches no null
\* sub-object.
C21_DestroyToleratesPartial ==
    life.phase = "destroyed" =>
       /\ \A r \in Present : Count(r) = 1
       /\ \A i \in 1..Len(life.log) : life.log[i] \in life.held
       /\ Count("info") = 1 /\ native["info"] = 0
       /\ Count("handle") = 1 /\ native["handle"] = 0
       /\ ~life.double

\* ========================================================================
\* Claims about argument checks (checked under SpecArgs)
\* ========================================================================
\* C30 (graph announcement): a creation that returned a handle triggered the
\* graph guard condition exactly once, with success; a creation whose trigger
\* failed returns null; a destruction that has returned triggered the guard
\* condition exactly once, after the last release, and returned what the
\* trigger returned.
C30_GraphAnnounced ==
    /\ life.phase = "created" =>
          (life.triggers = 1 /\ life.trigger_ret = RMW_RET_OK)
    /\ (life.phase = "failed" /\ life.failed_at = "trigger") =>
          (life.ret = "null" /\ life.triggers = 1)
    /\ life.phase = "destroyed" =>
          /\ life.triggers = 1
          /\ life.pc = Len(DestroyOrder(life.kind)) + 1
          /\ life.ret = life.trigger_ret

\* C39 (no double delete): across the destructions of one handle, a
\* destruction that returned an error part-way and is called again included,
\* no native resource is handed to its delete after it was deleted.
C39_NoDoubleDelete ==
    life.phase \in {"destroying", "destroyed"} => ~life.double

\* C22: calls with a null handle, a null message buffer, a null info record
\* or a handle of another implementation return a failure code and have no
\* effect: after any number of them the sequence counters are untouched,
\* every sample that arrived is still in its reader or in the request queue,
\* nothing was published by a client or the service, and the guard
\* condition is as the listener left it.
C22_InvalidHasNoEffect ==
    /\ \A c \in Clients :
          /\ client_info[c].sequence_number = 0
          /\ response_reader[c] = published
          /\ client_hist[c] = [returned |-> <<>>, taken |-> <<>>]
          /\ send_out[c].fail \in Defects => send_out[c].ret = RMW_RET_ERROR
          /\ take_out[c].ret \in {NoRet, RMW_RET_ERROR}
    /\ Len(request_reader) + Len(service_info.message_queue) = callback.arrived
    /\ service_info.message_queue = <<>> => ~service_info.queue_guard_condition
    /\ ~heap.bad_free
    /\ Cardinality(heap.infos) = Len(service_info.message_queue)
    /\ \A t \in AppThreads : app[t].pc = "done" => app[t].ret = RMW_RET_ERROR
    /\ avail.pc = "done" => avail.ret = RMW_RET_ERROR

C22_Witness ==
    /\ app["t1"].pc = "done"
    /\ app["t1"].ret = RMW_RET_ERROR
    /\ service_info.message_queue # <<>>
    /\ service_info.queue_guard_condition
    /\ \E c \in Clients :
          /\ send_out[c].fail = "null_info"
          /\ take_out[c].ret = RMW_RET_ERROR
          /\ response_reader[c] # <<>>

\* ========================================================================
\* Claims about the topics of a service name (checked under SpecTopics)
\* ========================================================================
\* C23: over any sequence of creations of clients and services for one
\* service name on one participant there is never more than one request
\* topic and one response topic of the name, after a successful creation
\* there is exactly one of each, and a call that finds the topic binds to it
\* (takes a reference) and creates no other.
C23_TopicSharedByName ==
    \A r \in Topics :
       /\ native[ObjectOf(r)] <= 1
       /\ native[ObjectOf(r)] = 1 <=> native[r] >= 1
       /\ life.phase = "created" =>
             /\ native[ObjectOf(r)] = 1
             /\ native[r] = life.before[r] + 1

C23_Witness ==
    /\ life.phase = "created"
    /\ life.calls >= 1
    /\ life.before["request_topic_object"] = 1
    /\ native["request_topic_object"] = 1
    /\ native["request_topic"] >= 2

\* ========================================================================
\* Claims about topic names (checked under SpecNaming)
\* ========================================================================
\* The names that the specification gives the two topics of a service.
ExpectedRequestName ==
    IF naming.avoid_ros_namespace_conventions
    THEN naming.service_name \o RequestSuffix
    ELSE ros_service_requester_prefix \o naming.service_name \o RequestSuffix

ExpectedReplyName ==
    IF naming.avoid_ros_namespace_conventions
    THEN naming.service_name \o ReplySuffix
    ELSE ros_service_response_prefix \o naming.service_name \o ReplySuffix

\* C24: for every service name and both values of
\* avoid_ros_namespace_conventions the client and the service compute the
\* same two topic names: prefix, name and suffix when the conventions are
\* kept, name and suffix when the caller opts out.
C24_SameTopicNames ==
    /\ naming.client.pc = "done" =>
          /\ naming.client.request_topic_name = ExpectedRequestName
          /\ naming.client.response_topic_name = ExpectedReplyName
    /\ naming.service.pc = "done" =>
          /\ naming.service.request_topic_name = ExpectedRequestName
          /\ naming.service.response_topic_name = ExpectedReplyName
    /\ (naming.client.pc = "done" /\ naming.service.pc = "done") =>
          /\ naming.client.request_topic_name = naming.service.request_topic_name
          /\ naming.client.response_topic_name = naming.service.response_topic_name

C24_Witness ==
    /\ naming.client.pc = "done"
    /\ naming.service.pc = "done"
    /\ naming.avoid_ros_namespace_conventions
    /\ naming.service_name = <<"r", "r">>
    /\ naming.client.response_topic_name = <<"r", "r">> \o ReplySuffix

====
